---- MODULE Spec2Model ----
(***************************************************************************)
(* Nullifier-based double-vote prevention of midnight-zk-voting:           *)
(* SecureCryptographicNullifier (bundle generation and verification) and   *)
(* SecureNullifierRegistry (the ledger), driven by one caller that         *)
(* generates a bundle, optionally alters it, and hands it to the verifier  *)
(* or the registry while the wall clock advances (Spec); the registry's    *)
(* map written from outside (SpecOutOfBand); several addNullifier calls in *)
(* flight (SpecRace); the VoterRegistry over the mock Poseidon hash        *)
(* (SpecVoters); and the DoubleVotePreventionSystem (SpecPrevention,       *)
(* SpecSeparator).  Beside them the user interface's NullifierService      *)
(* (SpecService, SpecObserver), the proof generators ZKProofGenerator and  *)
(* MidnightProvider (SpecProofs), the CircuitBreaker (SpecBreaker), the    *)
(* VotingContract (SpecContract, SpecReveal), the CryptoPerformanceCache   *)
(* (SpecCache, SpecProofCache), the BatchProcessor (SpecBatch), proof      *)
(* verification against the clock (SpecVerify), overlapping handleVote     *)
(* flows of the VotePage (SpecFlows), the WorkerPool (SpecPool) and the    *)
(* RealMidnightWallet (SpecWallet).                                        *)
(*                                                                         *)
(* Strings are records [len, txt]: len is the JavaScript string length,    *)
(* txt a sequence of integers that identifies the content (character codes *)
(* for identifiers, a tagged pre-image for digests).  SHA-256 is idealised *)
(* as collision free: a digest is 64 characters long and determined by,    *)
(* and determining, its pre-image.                                         *)
(***************************************************************************)
EXTENDS Integers, Sequences, FiniteSets

VARIABLES now, pc, held, call, nullifiers, merkleTree, registryRoot, racers,
          voters, voterTree, merkleRoot, issued, eligibility,
          usedNullifiers, nullifierHistory, ballots, attempt,
          serviceNullifiers, recorded, answer, listings,
          connected, generations, checked,
          breaker, running, trials, executed, streak, errorLog,
          contract, cast,
          hashCache, proofCache, recency, lookup,
          batchQueue, processingBatch, batch, loop, operations,
          flows,
          workers, made, workerQueue, tasks,
          installed, wallet, accounts, activeAccount, listening, walletCall

vars == <<now, pc, held, call, nullifiers, merkleTree, registryRoot, racers,
          voters, voterTree, merkleRoot, issued, eligibility,
          usedNullifiers, nullifierHistory, ballots, attempt,
          serviceNullifiers, recorded, answer, listings,
          connected, generations, checked,
          breaker, running, trials, executed, streak, errorLog,
          contract, cast,
          hashCache, proofCache, recency, lookup,
          batchQueue, processingBatch, batch, loop, operations,
          flows,
          workers, made, workerQueue, tasks,
          installed, wallet, accounts, activeAccount, listening, walletCall>>

\* the VoterRegistry (voterTree is its merkleTree) and its caller
voterVars == <<voters, voterTree, merkleRoot, issued, eligibility>>

\* the DoubleVotePreventionSystem and its caller
preventionVars == <<usedNullifiers, nullifierHistory, ballots, attempt>>

\* the NullifierService (serviceNullifiers is its usedNullifiers), the votes
\* it holds with their voters, the last answer of a call, and the lists an
\* observer has fetched
serviceVars == <<serviceNullifiers, recorded, answer, listings>>

\* the MidnightProvider having a wallet and a contract, and the last proof
\* generation of each of two voters
proofVars == <<connected, generations, checked>>

\* a CircuitBreaker, the number of operations it has started that have not
\* settled, the number of those that an execute call started on finding the
\* breaker open with the recovery timeout over, the last thing that happened
\* to an execute call, the number of execute calls that have failed in a row
\* (counted up to the threshold), and the length of the error log of
\* ErrorHandler
breakerVars == <<breaker, running, trials, executed, streak, errorLog>>

\* the AnonymousVotingContract with the events it has emitted, and the last
\* castVote call
contractVars == <<contract, cast>>

\* the two Maps of CryptoPerformanceCache, the keys of each in the order of
\* their last use, and the last call
cacheVars == <<hashCache, proofCache, recency, lookup>>

\* the BatchProcessor: its queue and flag, the batch that processBatch has
\* taken, where processBatch stands, and every operation handed to addToBatch
\* with the promise returned for it
batchVars == <<batchQueue, processingBatch, batch, loop, operations>>

\* the handleVote calls of the VotePage that have been made
flowVars == <<flows>>

\* the WorkerPool: its workers (named by their place in made), every worker
\* it has created, its queue, and the promise of every task handed to
\* processInWorker
poolVars == <<workers, made, workerQueue, tasks>>

\* the RealMidnightWallet: whether window.midnight is there, the three fields
\* of the object (wallet: whether this.wallet is not null), whether its
\* handlers are registered with the wallet, and the last call made on it
walletVars == <<installed, wallet, accounts, activeAccount, listening, walletCall>>

\* the components modelled last
lastVars == <<flowVars, poolVars, walletVars>>

\* the components modelled after the DoubleVotePreventionSystem
laterVars ==
  <<serviceVars, proofVars, breakerVars, contractVars, cacheVars, batchVars, lastVars>>

\* what the callers of the nullifier registry leave alone
elsewhere == <<voterVars, preventionVars, laterVars>>

registry == <<nullifiers, merkleTree, registryRoot>>

----------------------------------------------------------------------------
(* Bounds of the model *)

MaxVoters == 2

MaxRandom == 2

MaxHours == 1

MaxStored == 2

MaxRacers == 2

MaxSecrets == 2

MaxLeaves == 4

MaxVotes == 2

MaxRecords == 2

FailureThreshold == 2

RecoveryTimeout == 3600000

MaxRunning == 2

MaxFailures == 3

MaxLogged == 2

MaxProposals == 2

MaxCast == 2

\* maxCacheSize of CryptoPerformanceCache, 10000 in the source
MaxCacheSize == 2

\* batchSize of BatchProcessor, 10 in the source
BatchSize == 2

MaxOperations == 5

MaxFlows == 3

\* maxWorkers of WorkerPool, 4 in the source
MaxWorkers == 2

MaxTasks == 3

StartTime == 4000000

(* Program constants *)

MaxSkew == 3600000

DigestLen == 64

BlockBase == 1000

MaxProposalIdLen == 64

ProofDelay == 2000

MaxLogSize == 1000
ProofWindow == 300000

----------------------------------------------------------------------------
(* Strings *)

EmptyString == [len |-> 0, txt |-> <<>>]

\* a string given by its character codes
Chars(codes) == [len |-> Len(codes), txt |-> codes]

\* a string literal of the source, named by a number, n characters long
Literal(id, n) == [len |-> n, txt |-> <<0, id>>]

\* a + b
Cat(a, b) == [len |-> a.len + b.len, txt |-> a.txt \o b.txt]

\* s.substring(0, n)
Substring0(s, n) == IF s.len <= n THEN s ELSE [len |-> n, txt |-> <<-4, n>> \o s.txt]

RECURSIVE Join(_, _)
\* inputs.join(sep)
Join(inputs, sep) ==
  IF Len(inputs) = 0 THEN EmptyString
  ELSE IF Len(inputs) = 1 THEN inputs[1]
  ELSE Cat(Cat(inputs[1], sep), Join(Tail(inputs), sep))

RECURSIVE NatToString(_)
\* n.toString() for an integer n >= 0: its decimal digits
NatToString(n) ==
  IF n < 10 THEN <<48 + n>> ELSE NatToString(n \div 10) \o <<48 + (n % 10)>>

\* n.toString() for an integer
IntToString(n) == IF n < 0 THEN Chars(<<45>> \o NatToString(0 - n)) ELSE Chars(NatToString(n))

(* JavaScript numbers, as far as a vote choice needs them: NaN, or a        *)
(* multiple of one half held as twice its value.                           *)
Num(n) == [nan |-> FALSE, twice |-> 2 * n]

Half == [nan |-> FALSE, twice |-> 1]

NaN == [nan |-> TRUE, twice |-> 0]

\* x !== n for a number x and an integer n (NaN differs from everything)
StrictNotEqual(x, n) == x.nan \/ x.twice # 2 * n

\* x.toString()
NumberToString(x) ==
  IF x.nan THEN Chars(<<78, 97, 78>>)
  ELSE IF x.twice % 2 = 0 THEN IntToString(x.twice \div 2)
  ELSE Cat(IntToString(x.twice \div 2), Chars(<<46, 53>>))

----------------------------------------------------------------------------
(* Cryptographic primitives of SecureCryptographicNullifier *)

GENERATOR_POINT == Literal(1, 4)

PEDERSEN_H == Literal(2, 4)

\* CryptoJS.SHA256(s).toString(): 64 hex characters
SHA256(s) == [len |-> DigestLen, txt |-> <<-1, s.len, Len(s.txt)>> \o s.txt]

\* n bytes from crypto.getRandomValues, the draw named r
RandomBytes(r, n) == [len |-> n, txt |-> <<-2, r>>]

modularReduction(value) == Substring0(SHA256(value), 64)

hashToField(input) == modularReduction(SHA256(input))

poseidonHash(inputs) == modularReduction(SHA256(Join(inputs, Literal(3, 2))))

pedersenCommit(value, blindingFactor) ==
  LET valueHash == SHA256(Cat(value, GENERATOR_POINT))
      blindingHash == SHA256(Cat(blindingFactor, PEDERSEN_H))
  IN SHA256(Cat(valueHash, blindingHash))

\* the hex rendering of 32 random bytes, the draw named r
generateSecureRandom(r) == [len |-> 2 * 32, txt |-> <<-3, r>>]

scalarMultiply(point, scalar) == SHA256(Cat(point, scalar))

concatenateInputs(inputs) == [i \in DOMAIN inputs |-> SHA256(inputs[i])]

generateSecureVoterCredentials(entropy, additionalEntropy, blindingDraw) ==
  LET voterPrivateKey == hashToField(RandomBytes(entropy, 32))
      voterSecret == hashToField(Cat(RandomBytes(entropy, 32), RandomBytes(additionalEntropy, 32)))
      blindingFactor == generateSecureRandom(blindingDraw)
  IN [voterSecret |-> voterSecret,
      voterCommitment |-> pedersenCommit(voterSecret, blindingFactor),
      merkleIndex |-> 0,
      merkleProof |-> <<>>,
      voterPublicKey |-> scalarMultiply(GENERATOR_POINT, voterPrivateKey),
      voterPrivateKey |-> voterPrivateKey]

generateNullifierProof(credentials, proposalId, nullifier, nonce) ==
  poseidonHash(<<credentials.voterCommitment, proposalId, nullifier, nonce>>)

generateRangeProof(voteChoice, blindingFactor) ==
  poseidonHash(<<NumberToString(voteChoice), blindingFactor, Literal(4, 16)>>)

generateMembershipProof(credentials) ==
  poseidonHash(<<credentials.voterCommitment, IntToString(credentials.merkleIndex), Literal(5, 21)>>)

\* x < n and x > n for a number x and an integer n (false for NaN)
LessThan(x, n) == ~x.nan /\ x.twice < 2 * n

GreaterThan(x, n) == ~x.nan /\ x.twice > 2 * n

\* a variant of the guard that tests the range: voteChoice < 0 || voteChoice > 1
ValidVoteChoiceInRange(voteChoice) == ~(LessThan(voteChoice, 0) \/ GreaterThan(voteChoice, 1))

\* the guard of generateSecureNullifier: FALSE means it throws
ValidVoteChoice(voteChoice) == ~(StrictNotEqual(voteChoice, 0) /\ StrictNotEqual(voteChoice, 1))

\* the bundle generateSecureNullifier returns when it does not throw; nonceDraw
\* and blindingDraw name its two random draws, timestamp is Date.now()
generateSecureNullifier(voterCredentials, proposalId, voteChoice, nonceDraw, blindingDraw, timestamp) ==
  LET nonce == generateSecureRandom(nonceDraw)
      nullifierInput == concatenateInputs(<<voterCredentials.voterSecret, proposalId,
                                            nonce, IntToString(timestamp)>>)
      nullifier == poseidonHash(nullifierInput)
      voteBlindingFactor == generateSecureRandom(blindingDraw)
  IN [nullifier |-> nullifier,
      nullifierProof |-> generateNullifierProof(voterCredentials, proposalId, nullifier, nonce),
      voteCommitment |-> pedersenCommit(NumberToString(voteChoice), voteBlindingFactor),
      rangeProof |-> generateRangeProof(voteChoice, voteBlindingFactor),
      membershipProof |-> generateMembershipProof(voterCredentials),
      timestamp |-> timestamp,
      nonce |-> nonce]

verifyRangeProof(proof, commitment) == proof.len = 64 /\ commitment.len = 64

\* a variant that does not look at the registry root
verifyMembershipProofAnyRoot(proof, root) == proof.len = 64

verifyMembershipProof(proof, root) == proof.len = 64 /\ root.len > 0

verifyNullifierStructure(nullifierProof) ==
  /\ nullifierProof.nullifier.len = 64
  /\ nullifierProof.nullifierProof.len = 64
  /\ nullifierProof.voteCommitment.len = 64
  /\ nullifierProof.rangeProof.len = 64
  /\ nullifierProof.membershipProof.len = 64
  /\ nullifierProof.nonce.len = 64
  /\ nullifierProof.timestamp > 0

\* Math.abs
Abs(x) == IF x < 0 THEN 0 - x ELSE x

\* a variant that also refuses a bundle exactly one hour off: >= for >
TimestampUnreasonableAtBoundary(currentTime, timestamp) ==
  Abs(currentTime - timestamp) >= MaxSkew

\* the timestamp test of verifyNullifierProof: TRUE means the bundle is refused
TimestampUnreasonable(currentTime, timestamp) == Abs(currentTime - timestamp) > MaxSkew

\* a variant whose timestamp test measures the age without Math.abs, and so
\* refuses every timestamp after the time of the call
verifyNullifierProofNoFuture(nullifierProof, proposalId, voterRegistryRoot, currentTime) ==
  IF ~verifyRangeProof(nullifierProof.rangeProof, nullifierProof.voteCommitment) THEN FALSE
  ELSE IF ~verifyMembershipProof(nullifierProof.membershipProof, voterRegistryRoot) THEN FALSE
  ELSE IF ~verifyNullifierStructure(nullifierProof) THEN FALSE
  ELSE IF currentTime - nullifierProof.timestamp > MaxSkew
          \/ currentTime - nullifierProof.timestamp < 0 THEN FALSE
  ELSE TRUE

\* currentTime is what Date.now() returns during the call
verifyNullifierProof(nullifierProof, proposalId, voterRegistryRoot, currentTime) ==
  LET expectedNullifierInput ==
        concatenateInputs(<<Literal(6, 19), proposalId, nullifierProof.nonce,
                            IntToString(nullifierProof.timestamp)>>)
  IN IF ~verifyRangeProof(nullifierProof.rangeProof, nullifierProof.voteCommitment) THEN FALSE
     ELSE IF ~verifyMembershipProof(nullifierProof.membershipProof, voterRegistryRoot) THEN FALSE
     ELSE IF ~verifyNullifierStructure(nullifierProof) THEN FALSE
     ELSE IF TimestampUnreasonable(currentTime, nullifierProof.timestamp) THEN FALSE
     ELSE TRUE

checkNullifierUniqueness(nullifier, existingNullifiers) ==
  LET isUnique == nullifier \notin existingNullifiers
  IN [isUnique |-> isUnique, conflictDetected |-> ~isUnique]

\* SecurityUtils.validateProposalId: /^[a-zA-Z0-9_-]{1,64}$/ on the character codes
validateProposalId(proposalId) ==
  /\ Len(proposalId) >= 1
  /\ Len(proposalId) <= MaxProposalIdLen
  /\ \A i \in 1..Len(proposalId) :
       \/ proposalId[i] \in 97..122
       \/ proposalId[i] \in 65..90
       \/ proposalId[i] \in 48..57
       \/ proposalId[i] \in {95, 45}

----------------------------------------------------------------------------
(* SecureNullifierRegistry.  The Map `nullifiers` is a sequence of          *)
(* [key, proof] entries in insertion order.                                *)

MapKeys(m) == [i \in DOMAIN m |-> m[i].key]

MapKeySet(m) == {m[i].key : i \in DOMAIN m}

\* m.set(k, v): replaces the value of an existing key in place, else appends
MapSet(m, k, v) ==
  IF k \in MapKeySet(m)
  THEN [i \in DOMAIN m |-> IF m[i].key = k THEN [key |-> k, proof |-> v] ELSE m[i]]
  ELSE Append(m, [key |-> k, proof |-> v])

RECURSIVE MerkleLevel(_, _)
\* the loop of computeMerkleRoot from index i (1-based) on: one hash per pair,
\* an unpaired (or empty) right sibling replaced by the left one
MerkleLevel(leaves, i) ==
  IF i > Len(leaves) THEN <<>>
  ELSE LET left == leaves[i]
           right == IF i + 1 <= Len(leaves) /\ leaves[i + 1].len > 0 THEN leaves[i + 1] ELSE left
       IN <<SHA256(Cat(left, right))>> \o MerkleLevel(leaves, i + 2)

RECURSIVE computeMerkleRoot(_)
computeMerkleRoot(leaves) ==
  IF Len(leaves) = 0 THEN EmptyString
  ELSE IF Len(leaves) = 1 THEN leaves[1]
  ELSE computeMerkleRoot(MerkleLevel(leaves, 1))

\* the registry fields after updateMerkleTree() on the map m
updateMerkleTree(m) ==
  [nullifiers |-> m, merkleTree |-> MapKeys(m), registryRoot |-> computeMerkleRoot(MapKeys(m))]

\* what a caller finds when it reads a reason off a returned boolean
NoReason == "undefined"

\* a variant that stores every bundle it is given
addNullifierUnchecked(reg, nullifierProof, proposalId, currentTime) ==
  [result |-> TRUE, reason |-> NoReason,
   reg |-> updateMerkleTree(MapSet(reg.nullifiers, nullifierProof.nullifier, nullifierProof))]

\* a variant that stores the bundle before it verifies it
addNullifierStoring(reg, nullifierProof, proposalId, currentTime) ==
  IF ~verifyNullifierProof(nullifierProof, proposalId, reg.registryRoot, currentTime)
  THEN [result |-> FALSE, reason |-> NoReason,
        reg |-> [reg EXCEPT !.nullifiers = MapSet(reg.nullifiers, nullifierProof.nullifier,
                                                  nullifierProof)]]
  ELSE [result |-> TRUE, reason |-> NoReason,
        reg |-> updateMerkleTree(MapSet(reg.nullifiers, nullifierProof.nullifier,
                                        nullifierProof))]

\* addNullifier on the registry reg at time currentTime: the boolean returned,
\* the reason that comes with it (a boolean carries none), and the registry
\* fields the call leaves
addNullifier(reg, nullifierProof, proposalId, currentTime) ==
  IF ~verifyNullifierProof(nullifierProof, proposalId, reg.registryRoot, currentTime)
  THEN [result |-> FALSE, reason |-> NoReason, reg |-> reg]
  ELSE LET uniquenessCheck ==
             checkNullifierUniqueness(nullifierProof.nullifier, MapKeySet(reg.nullifiers))
       IN IF ~uniquenessCheck.isUnique
          THEN [result |-> FALSE, reason |-> NoReason, reg |-> reg]
          ELSE [result |-> TRUE, reason |-> NoReason,
                reg |-> updateMerkleTree(MapSet(reg.nullifiers, nullifierProof.nullifier,
                                                nullifierProof))]

\* a check that also demands a stored entry
verifyRegistryIntegrityNonEmpty(m) ==
  Len(m) > 0 /\ \A i \in DOMAIN m : ~(m[i].proof.nullifier # m[i].key)

verifyRegistryIntegrity(m) == \A i \in DOMAIN m : ~(m[i].proof.nullifier # m[i].key)

----------------------------------------------------------------------------
(* The mock Poseidon of lib/midnight-mock and the VoterRegistry built on it *)

RECURSIVE PoseidonLoop(_, _, _, _)
\* the loop of Poseidon.hash from character i (1-based) on. hash is held as the
\* two 16-bit halves hi, lo of its 32 bits; ((hash << 5) - hash) + char followed
\* by hash & hash is 31 * hash + char modulo 2^32
PoseidonLoop(combined, i, hi, lo) ==
  IF i > Len(combined) THEN <<hi, lo>>
  ELSE LET low == 31 * lo + combined[i]
           high == 31 * hi + (low \div 65536)
       IN PoseidonLoop(combined, i + 1, high % 65536, low % 65536)

\* Math.abs of the signed 32-bit integer with the halves w[1], w[2], as halves
MathAbs32(w) ==
  IF w[1] < 32768 THEN w
  ELSE IF w[2] = 0 THEN <<65536 - w[1], 0>>
  ELSE <<65535 - w[1], 65536 - w[2]>>

RECURSIVE ToDecimal(_, _)
\* the decimal digits of hi * 65536 + lo
ToDecimal(hi, lo) ==
  IF hi = 0 /\ lo < 10 THEN <<48 + lo>>
  ELSE LET x == (hi % 10) * 65536 + lo
       IN ToDecimal(hi \div 10, x \div 10) \o <<48 + (x % 10)>>

\* Poseidon.hash(inputs).toString(); a Field is the string it was made from
Poseidon(inputs) ==
  LET combined == Join(inputs, EmptyString)
      hash == MathAbs32(PoseidonLoop(combined.txt, 1, 0, 0))
  IN Chars(ToDecimal(hash[1], hash[2]))

hashVoterCredentials(voterSecret) == Poseidon(<<voterSecret>>)

RECURSIVE NextLevel(_, _)
\* the level above currentLevel, built from index i (1-based) on
NextLevel(currentLevel, i) ==
  IF i > Len(currentLevel) THEN <<>>
  ELSE LET left == currentLevel[i]
           right == IF i + 1 <= Len(currentLevel) /\ currentLevel[i + 1].len > 0
                    THEN currentLevel[i + 1] ELSE left
       IN <<Poseidon(<<left, right>>)>> \o NextLevel(currentLevel, i + 2)

RECURSIVE TopOf(_)
\* the while loop of updateMerkleRoot, for a level that is not empty
TopOf(currentLevel) ==
  IF Len(currentLevel) > 1 THEN TopOf(NextLevel(currentLevel, 1)) ELSE currentLevel[1]

\* the merkleRoot that updateMerkleRoot() leaves for the leaves tree
updateMerkleRoot(tree) == IF Len(tree) = 0 THEN EmptyString ELSE TopOf(tree)

RECURSIVE ProofLoop(_, _)
\* the while loop of generateMerkleProof; currentIndex counts from 0
ProofLoop(currentLevel, currentIndex) ==
  IF ~(Len(currentLevel) > 1) THEN [proof |-> <<>>, indices |-> <<>>]
  ELSE LET isRightNode == currentIndex % 2 = 1
           siblingIndex == IF isRightNode THEN currentIndex - 1 ELSE currentIndex + 1
           pushed == IF siblingIndex < Len(currentLevel)
                     THEN [proof |-> <<currentLevel[siblingIndex + 1]>>,
                           indices |-> <<IF isRightNode THEN 0 ELSE 1>>]
                     ELSE [proof |-> <<>>, indices |-> <<>>]
           rest == ProofLoop(NextLevel(currentLevel, 1), currentIndex \div 2)
       IN [proof |-> pushed.proof \o rest.proof, indices |-> pushed.indices \o rest.indices]

generateMerkleProof(tree, index) == ProofLoop(tree, index)

RECURSIVE VerifyLoop(_, _, _, _)
\* the for loop of verifyMerkleProof from step i (1-based) on
VerifyLoop(current, proof, indices, i) ==
  IF i > Len(proof) THEN current
  ELSE LET sibling == proof[i]
           isRight == indices[i] = 1
       IN VerifyLoop(IF isRight THEN Poseidon(<<sibling, current>>)
                                ELSE Poseidon(<<current, sibling>>),
                     proof, indices, i + 1)

verifyMerkleProof(leaf, proof, indices) == VerifyLoop(leaf, proof, indices, 1)

\* verifyVoterEligibility on a registry whose merkleRoot is root
verifyVoterEligibility(root, voterSecret, merkleProof, merkleIndices) ==
  LET voterHash == hashVoterCredentials(voterSecret)
      computedRoot == verifyMerkleProof(voterHash, merkleProof, merkleIndices)
  IN computedRoot = root

\* addEligibleVoter at time currentTime on the registry reg: the fields it
\* leaves and the VoterCredentials it returns
addEligibleVoter(reg, voterSecret, eligibilityProof, currentTime) ==
  LET voterHash == hashVoterCredentials(voterSecret)
      registration == [voterHash |-> voterHash, timestamp |-> currentTime,
                       eligibilityProof |-> eligibilityProof]
      voterIndex == Len(reg.merkleTree)
      tree == Append(reg.merkleTree, voterHash)
      path == generateMerkleProof(tree, voterIndex)
  IN [reg |-> [voters |-> MapSet(reg.voters, voterHash, registration),
               merkleTree |-> tree,
               merkleRoot |-> updateMerkleRoot(tree)],
      credentials |-> [voterSecret |-> voterSecret, voterIndex |-> voterIndex,
                       merkleProof |-> path.proof, merkleIndices |-> path.indices]]

----------------------------------------------------------------------------
(* DoubleVotePreventionSystem *)

\* m.get(k) for a key the map holds
MapGet(m, k) == m[CHOOSE i \in DOMAIN m : m[i].key = k].proof

\* `${voterSecret}:${proposalId}:nullifier_salt_2024`, hashed
generateNullifier(voterSecret, proposalId) ==
  LET input == Cat(Cat(Cat(voterSecret, Chars(<<58>>)), proposalId),
                   Cat(Chars(<<58>>), Literal(16, 19)))
  IN SHA256(input)

getNextBlockNumber(history) == Len(history) + BlockBase

NoRecord ==
  [nullifier |-> EmptyString, proposalId |-> EmptyString, timestamp |-> 0, blockNumber |-> 0]

\* a variant that also files the refused attempt in the history
attemptVoteLogging(sys, voteAttempt) ==
  LET nullifier == generateNullifier(voteAttempt.voterSecret, voteAttempt.proposalId)
      record == [nullifier |-> nullifier, proposalId |-> voteAttempt.proposalId,
                 timestamp |-> voteAttempt.timestamp,
                 blockNumber |-> getNextBlockNumber(sys.nullifierHistory)]
  IN IF nullifier \in MapKeySet(sys.usedNullifiers)
     THEN [result |-> [success |-> FALSE, nullifier |-> nullifier,
                       reason |-> "Double voting detected",
                       previousVote |-> MapGet(sys.usedNullifiers, nullifier)],
           sys |-> [sys EXCEPT !.nullifierHistory = Append(@, record)]]
     ELSE [result |-> [success |-> TRUE, nullifier |-> nullifier, reason |-> NoReason,
                       previousVote |-> NoRecord],
           sys |-> [usedNullifiers |-> MapSet(sys.usedNullifiers, nullifier, record),
                    nullifierHistory |-> Append(sys.nullifierHistory, record)]]

\* attemptVote on the system sys: the object returned (reason and previousVote
\* are left out of it on success) and the fields the call leaves
attemptVote(sys, voteAttempt) ==
  LET nullifier == generateNullifier(voteAttempt.voterSecret, voteAttempt.proposalId)
  IN IF nullifier \in MapKeySet(sys.usedNullifiers)
     THEN [result |-> [success |-> FALSE, nullifier |-> nullifier,
                       reason |-> "Double voting detected",
                       previousVote |-> MapGet(sys.usedNullifiers, nullifier)],
           sys |-> sys]
     ELSE LET record == [nullifier |-> nullifier, proposalId |-> voteAttempt.proposalId,
                         timestamp |-> voteAttempt.timestamp,
                         blockNumber |-> getNextBlockNumber(sys.nullifierHistory)]
          IN [result |-> [success |-> TRUE, nullifier |-> nullifier, reason |-> NoReason,
                          previousVote |-> NoRecord],
              sys |-> [usedNullifiers |-> MapSet(sys.usedNullifiers, nullifier, record),
                       nullifierHistory |-> Append(sys.nullifierHistory, record)]]

isNullifierUsed(used, nullifier) == nullifier \in MapKeySet(used)

----------------------------------------------------------------------------
(* Inputs *)

\* 'A', 'B'
ProposalNames == {Chars(<<65>>), Chars(<<66>>)}

\* Date.now() and Date.now() + 5000 of the demos
AttemptTimes == {StartTime, StartTime + 5000}

\* "a", "b", ...
VoterSecrets == {Chars(<<96 + i>>) : i \in 1..MaxSecrets}

\* 'proof_0'
EligibilityProofs == {Chars(<<112, 114, 111, 111, 102, 95, 48>>)}

Voters == 1..MaxVoters

\* the random nonces a generation may draw
Draws == 1..MaxRandom

\* the random blinding factors a generation may draw
BlindingDraws == {0}

\* the credentials of voter v: three random draws of its own
Credential(v) == generateSecureVoterCredentials(3 * v, 3 * v + 1, 3 * v + 2)

\* Date.now() is sampled at the start, at whole hours after it, and one
\* millisecond after each of these
Clock == {StartTime + h * MaxSkew + j : h \in 0..MaxHours, j \in {0, 1}}

\* "A", "B", the empty identifier, and one of 65 characters
ProposalIds == {<<65>>, <<66>>, <<>>, [i \in 1..(MaxProposalIdLen + 1) |-> 97]}

VoteChoices == {Num(0 - 1), Num(0), Num(1), Num(2), Half, NaN}

\* '' and 'test_registry_root'
Roots == {EmptyString, Literal(7, 18)}

StringFields == {"nullifier", "nullifierProof", "voteCommitment", "rangeProof",
                 "membershipProof", "nonce"}

NoTamper == [field |-> "none", kind |-> "none"]

\* "byte": one byte of the field changed; "text": the field replaced by the
\* literal 'tampered_...' of the test suites; for the timestamp "hourAhead" adds
\* one hour, "stale" and "edge" set it one millisecond outside and inside the
\* window that ends now, "one" sets it to 1
Tampers ==
  {[field |-> f, kind |-> "byte"] : f \in StringFields \cup {"timestamp"}}
  \cup {[field |-> f, kind |-> "text"] :
          f \in {"nullifier", "voteCommitment", "rangeProof", "membershipProof"}}
  \cup {[field |-> "timestamp", kind |-> k] : k \in {"hourAhead", "stale", "edge", "one"}}

\* another string of the same length
ByteChanged(s) == [len |-> s.len, txt |-> s.txt \o <<-5>>]

\* 'tampered_nullifier', 'tampered_commitment', 'tampered_range_proof',
\* 'tampered_membership_proof'
TamperedText(f) ==
  IF f = "nullifier" THEN Literal(8, 18)
  ELSE IF f = "voteCommitment" THEN Literal(9, 19)
  ELSE IF f = "rangeProof" THEN Literal(10, 20)
  ELSE Literal(11, 25)

TamperedString(s, t) == IF t.kind = "byte" THEN ByteChanged(s) ELSE TamperedText(t.field)

TamperedTimestamp(timestamp, kind, currentTime) ==
  IF kind = "byte" THEN timestamp + 1
  ELSE IF kind = "hourAhead" THEN timestamp + 3600000
  ELSE IF kind = "stale" THEN currentTime - 3600000 - 1
  ELSE IF kind = "edge" THEN currentTime - 3600000 + 1
  ELSE 1

\* { ...b, field: altered value }
ApplyTamper(b, t, currentTime) ==
  IF t.field = "timestamp"
  THEN [b EXCEPT !.timestamp = TamperedTimestamp(b.timestamp, t.kind, currentTime)]
  ELSE [b EXCEPT ![t.field] = TamperedString(b[t.field], t)]

NoBundle ==
  [nullifier |-> EmptyString, nullifierProof |-> EmptyString, voteCommitment |-> EmptyString,
   rangeProof |-> EmptyString, membershipProof |-> EmptyString, timestamp |-> 0,
   nonce |-> EmptyString]

NoHeld ==
  [voter |-> 0, proposalId |-> <<>>, voteChoice |-> Num(0), genTime |-> 0,
   tamper |-> NoTamper, original |-> NoBundle, bundle |-> NoBundle]

NoCall ==
  [op |-> "none", proposalId |-> <<>>, root |-> EmptyString, at |-> 0,
   seen |-> FALSE, result |-> FALSE, reason |-> NoReason, after |-> "none"]

----------------------------------------------------------------------------
(* NullifierService of the user interface.  Its Map usedNullifiers is a      *)
(* sequence of [key, proof] entries in insertion order, proof holding the    *)
(* NullifierRecord stored under the key.                                     *)

\* the loop over the characters of input, followed by Math.abs: the halves of
\* the absolute value of the 32-bit hash
serviceHash(input) == MathAbs32(PoseidonLoop(input.txt, 1, 0, 0))

HexDigit(d) == IF d < 10 THEN 48 + d ELSE 87 + d

RECURSIVE NatToHex(_)
\* n.toString(16) for an integer n >= 0
NatToHex(n) ==
  IF n < 16 THEN <<HexDigit(n)>> ELSE NatToHex(n \div 16) \o <<HexDigit(n % 16)>>

\* (hi * 65536 + lo).toString(16)
ToHex(hi, lo) ==
  IF hi = 0 THEN Chars(NatToHex(lo))
  ELSE Chars(NatToHex(hi) \o <<HexDigit(lo \div 4096), HexDigit((lo \div 256) % 16),
                              HexDigit((lo \div 16) % 16), HexDigit(lo % 16)>>)

\* ':nullifier_salt_2024'
NullifierSalt ==
  Chars(<<58, 110, 117, 108, 108, 105, 102, 105, 101, 114, 95, 115, 97, 108, 116, 95, 50, 48,
          50, 52>>)

\* 'nullifier_'
NullifierPrefix == Chars(<<110, 117, 108, 108, 105, 102, 105, 101, 114, 95>>)

\* NullifierService.generateNullifier
serviceGenerateNullifier(voterSecret, proposalId) ==
  LET input == Cat(Cat(Cat(voterSecret, Chars(<<58>>)), proposalId), NullifierSalt)
      hash == serviceHash(input)
  IN Cat(NullifierPrefix, ToHex(hash[1], hash[2]))

\* `voter_${hex.substring(0, 8)}` of the hash of `voter_id_${voterSecret}`
hashVoterIdentifier(voterSecret) ==
  LET input == Cat(Chars(<<118, 111, 116, 101, 114, 95, 105, 100, 95>>), voterSecret)
      hash == serviceHash(input)
  IN Cat(Chars(<<118, 111, 116, 101, 114, 95>>), Substring0(ToHex(hash[1], hash[2]), 8))

\* an optional number that is absent
NoTime == [some |-> FALSE, at |-> 0]

SomeTime(t) == [some |-> TRUE, at |-> t]

checkVoteEligibility(used, voterSecret, proposalId) ==
  LET nullifier == serviceGenerateNullifier(voterSecret, proposalId)
  IN IF nullifier \in MapKeySet(used)
     THEN [canVote |-> FALSE, nullifier |-> nullifier,
           reason |-> "You have already voted on this proposal",
           previousVoteTime |-> SomeTime(MapGet(used, nullifier).timestamp)]
     ELSE [canVote |-> TRUE, nullifier |-> nullifier,
           reason |-> "Ready to vote - this will be your first vote on this proposal",
           previousVoteTime |-> NoTime]

\* recordVote at the time currentTime: the result and the map after the call
recordVote(used, voterSecret, proposalId, currentTime) ==
  LET answered == checkVoteEligibility(used, voterSecret, proposalId)
      record == [nullifier |-> answered.nullifier, proposalId |-> proposalId,
                 voterIdentifier |-> hashVoterIdentifier(voterSecret),
                 timestamp |-> currentTime]
  IN IF ~answered.canVote
     THEN [result |-> answered, used |-> used]
     ELSE [result |-> [canVote |-> TRUE, nullifier |-> answered.nullifier,
                       reason |-> "Vote successfully recorded",
                       previousVoteTime |-> NoTime],
           used |-> MapSet(used, answered.nullifier, record)]

\* `${n}${unit}${n > 1 ? 's' : ''} ago`
Ago(n, unit) ==
  Cat(Cat(Cat(IntToString(n), unit), IF n > 1 THEN Chars(<<115>>) ELSE EmptyString),
      Chars(<<32, 97, 103, 111>>))

formatTimeAgo(timestamp, currentTime) ==
  LET diff == currentTime - timestamp
      minutes == diff \div (1000 * 60)
      hours == diff \div (1000 * 60 * 60)
      days == diff \div (1000 * 60 * 60 * 24)
  IN IF days > 0 THEN Ago(days, Chars(<<32, 100, 97, 121>>))
     ELSE IF hours > 0 THEN Ago(hours, Chars(<<32, 104, 111, 117, 114>>))
     ELSE IF minutes > 0 THEN Ago(minutes, Chars(<<32, 109, 105, 110, 117, 116, 101>>))
     ELSE Chars(<<106, 117, 115, 116, 32, 110, 111, 119>>)

\* getVoteStatus at the time currentTime; the fields of details that the
\* 'can-vote' answer does not have are NoTime and the empty string
getVoteStatus(used, voterSecret, proposalId, currentTime) ==
  LET result == checkVoteEligibility(used, voterSecret, proposalId)
      timeAgo == IF result.previousVoteTime.some /\ result.previousVoteTime.at # 0
                 THEN formatTimeAgo(result.previousVoteTime.at, currentTime)
                 ELSE Chars(<<117, 110, 107, 110, 111, 119, 110, 32, 116, 105, 109, 101>>)
  IN IF result.canVote
     THEN [status |-> "can-vote", message |-> "Ready to vote",
           details |-> [nullifier |-> result.nullifier, previousVoteTime |-> NoTime,
                        timeAgo |-> EmptyString]]
     ELSE [status |-> "already-voted", message |-> "Already voted on this proposal",
           details |-> [nullifier |-> result.nullifier,
                        previousVoteTime |-> result.previousVoteTime,
                        timeAgo |-> timeAgo]]

\* the values of the map whose proposalId is the one asked for
getProposalNullifiers(used, proposalId) ==
  LET values == [i \in DOMAIN used |-> used[i].proof]
  IN SelectSeq(values, LAMBDA record : record.proposalId = proposalId)

\* demo_voter_alice, demo_voter_bob and demo_voter_carol on proposal '3', two
\* hours, one hour and thirty minutes before currentTime
demoVotes(currentTime) ==
  << [voterSecret |-> Chars(<<100, 101, 109, 111, 95, 118, 111, 116, 101, 114, 95, 97, 108, 105,
                              99, 101>>),
      proposalId |-> Chars(<<51>>), timestamp |-> currentTime - 2 * 60 * 60 * 1000],
     [voterSecret |-> Chars(<<100, 101, 109, 111, 95, 118, 111, 116, 101, 114, 95, 98, 111,
                              98>>),
      proposalId |-> Chars(<<51>>), timestamp |-> currentTime - 1 * 60 * 60 * 1000],
     [voterSecret |-> Chars(<<100, 101, 109, 111, 95, 118, 111, 116, 101, 114, 95, 99, 97, 114,
                              111, 108>>),
      proposalId |-> Chars(<<51>>), timestamp |-> currentTime - 30 * 60 * 1000] >>

RECURSIVE DemoLoop(_, _, _)
\* demoVotes.forEach from vote i (1-based) on
DemoLoop(used, votes, i) ==
  IF i > Len(votes) THEN used
  ELSE LET vote == votes[i]
           nullifier == serviceGenerateNullifier(vote.voterSecret, vote.proposalId)
           record == [nullifier |-> nullifier, proposalId |-> vote.proposalId,
                      voterIdentifier |-> hashVoterIdentifier(vote.voterSecret),
                      timestamp |-> vote.timestamp]
       IN DemoLoop(MapSet(used, nullifier, record), votes, i + 1)

initializeDemoData(used, currentTime) == DemoLoop(used, demoVotes(currentTime), 1)

----------------------------------------------------------------------------
(* Proof generation: ZKProofGenerator.generateVoteProof and the              *)
(* generateVoteProof of the MidnightProvider.  A Field is the string it      *)
(* holds.                                                                    *)

\* JSON.stringify of a string without quotes, backslashes or control characters
JsonString(s) == Cat(Cat(Chars(<<34>>), s), Chars(<<34>>))

\* JSON.stringify of an integer
JsonNumber(n) == IntToString(n)

\* the character of a base64 digit
Base64Char(v) ==
  IF v < 26 THEN 65 + v
  ELSE IF v < 52 THEN 71 + v
  ELSE IF v < 62 THEN v - 4
  ELSE IF v = 62 THEN 43
  ELSE 47

RECURSIVE Base64Loop(_, _)
\* the base64 characters of the bytes from byte i (1-based) on, '=' padded
Base64Loop(bytes, i) ==
  IF i > Len(bytes) THEN <<>>
  ELSE LET b1 == bytes[i]
           b2 == IF i + 1 <= Len(bytes) THEN bytes[i + 1] ELSE 0
           b3 == IF i + 2 <= Len(bytes) THEN bytes[i + 2] ELSE 0
       IN << Base64Char(b1 \div 4),
             Base64Char((b1 % 4) * 16 + b2 \div 16),
             IF i + 1 <= Len(bytes) THEN Base64Char((b2 % 16) * 4 + b3 \div 64) ELSE 61,
             IF i + 2 <= Len(bytes) THEN Base64Char(b3 % 64) ELSE 61 >>
            \o Base64Loop(bytes, i + 3)

\* Buffer.from(s).toString('base64') for a string of ASCII characters
ToBase64(s) == Chars(Base64Loop(s.txt, 1))

\* validateInputs throws
InvalidInputs(inputs) ==
  \/ inputs.proposalId.len = 0
  \/ inputs.voteChoice # 0 /\ inputs.voteChoice # 1
  \/ inputs.voterSecret.len = 0
  \/ inputs.voterNullifier.len = 0

computeNullifier(voterSecret, nullifier, proposalId) ==
  Poseidon(<<voterSecret, nullifier, proposalId>>)

computeVoteCommitment(proposalId, voteChoice, nullifier) ==
  Poseidon(<<proposalId, IntToString(voteChoice), IntToString(1), nullifier>>)

\* generateMockProof; random36 is Math.random().toString(36)
generateMockProof(inputs, nullifierHash, voteCommitment, random36) ==
  LET proofElements == <<inputs.proposalId, IntToString(inputs.voteChoice), nullifierHash,
                         voteCommitment, random36>>
  IN ToBase64(Join(proofElements, Chars(<<124>>)))

\* generateZKProof at the time currentTime: JSON.stringify(proofData)
generateZKProof(inputs, nullifierHash, voteCommitment, random36, currentTime) ==
  Join(<< Chars(<<123, 34, 112, 114, 111, 112, 111, 115, 97, 108, 73, 100, 34,
                            58>>),
          JsonString(inputs.proposalId),
          Chars(<<44, 34, 110, 117, 108, 108, 105, 102, 105, 101, 114, 72, 97,
                            115, 104, 34, 58>>),
          JsonString(nullifierHash),
          Chars(<<44, 34, 118, 111, 116, 101, 67, 111, 109, 109, 105, 116,
                            109, 101, 110, 116, 34, 58>>),
          JsonString(voteCommitment),
          Chars(<<44, 34, 116, 105, 109, 101, 115, 116, 97, 109, 112, 34, 58>>),
          JsonNumber(currentTime),
          Chars(<<44, 34, 109, 111, 99, 107, 80, 114, 111, 111, 102, 34, 58>>),
          JsonString(generateMockProof(inputs, nullifierHash, voteCommitment, random36)),
          Chars(<<125>>) >>, EmptyString)

NoOutputs ==
  [nullifierHash |-> EmptyString, voteCommitment |-> EmptyString, proof |-> EmptyString]

\* ZKProofGenerator.generateVoteProof: what it throws, or what it resolves to
generateVoteProof(inputs, random36, currentTime) ==
  IF InvalidInputs(inputs)
  THEN [threw |-> TRUE, error |-> "Zero-knowledge proof generation failed",
        outputs |-> NoOutputs]
  ELSE LET nullifierHash == computeNullifier(inputs.voterSecret, inputs.voterNullifier,
                                             inputs.proposalId)
           voteCommitment == computeVoteCommitment(inputs.proposalId, inputs.voteChoice,
                                                   inputs.voterNullifier)
       IN [threw |-> FALSE, error |-> NoReason,
           outputs |-> [nullifierHash |-> nullifierHash, voteCommitment |-> voteCommitment,
                        proof |-> generateZKProof(inputs, nullifierHash, voteCommitment,
                                                  random36, currentTime)]]

NoZKProof == [proof |-> EmptyString, publicInputs |-> <<>>]

\* generateVoteProof of the MidnightProvider, its timer having run out at the
\* time currentTime
providerGenerateVoteProof(isConnected, voteData, currentTime) ==
  IF ~isConnected
  THEN [threw |-> TRUE, error |-> "Wallet or contract not connected", zkProof |-> NoZKProof]
  ELSE [threw |-> FALSE, error |-> NoReason,
        zkProof |->
          [proof |-> Join(<< Chars(<<123, 34, 112, 114, 111, 112, 111, 115, 97, 108, 73, 100, 34,
                            58>>),
                             JsonString(voteData.proposalId),
                             Chars(<<44, 34, 99, 104, 111, 105, 99, 101, 34, 58>>),
                             JsonNumber(voteData.choice),
                             Chars(<<44, 34, 116, 105, 109, 101, 115, 116, 97, 109, 112, 34, 58>>),
                             JsonNumber(currentTime),
                             Chars(<<44, 34, 110, 117, 108, 108, 105, 102, 105, 101, 114, 34,
                            58>>),
                             JsonString(voteData.nullifier),
                             Chars(<<125>>) >>, EmptyString),
           publicInputs |-> <<voteData.proposalId, IntToString(voteData.choice),
                              IntToString(1)>>]]

(* JSON.parse, as far as verifyVoteProof needs it: of an object whose       *)
(* members are strings without escapes and integers without sign; every     *)
(* other text counts as one that JSON.parse throws on.  A value is a record *)
(* [string, str, num]: string tells which of str and num it is.             *)

RECURSIVE ScanQuote(_, _)
\* the place of the first '"' of t at i or later, 0 if there is none
ScanQuote(t, i) ==
  IF i > Len(t) THEN 0 ELSE IF t[i] = 34 THEN i ELSE ScanQuote(t, i + 1)

RECURSIVE ScanDigits(_, _)
\* the place after the digits of t that start at i
ScanDigits(t, i) ==
  IF i <= Len(t) /\ t[i] \in 48..57 THEN ScanDigits(t, i + 1) ELSE i

RECURSIVE DigitsToNat(_)
DigitsToNat(digits) ==
  IF Len(digits) = 0 THEN 0
  ELSE 10 * DigitsToNat(SubSeq(digits, 1, Len(digits) - 1)) + (digits[Len(digits)] - 48)

JsonThrows == [threw |-> TRUE, members |-> <<>>]

RECURSIVE JsonMembers(_, _, _)
\* the members of the object from the key that starts at i on, after members
JsonMembers(t, i, members) ==
  IF i > Len(t) \/ t[i] # 34 THEN JsonThrows
  ELSE LET keyEnd == ScanQuote(t, i + 1)
           v == keyEnd + 2
       IN IF keyEnd = 0 \/ v > Len(t) \/ t[keyEnd + 1] # 58 THEN JsonThrows
          ELSE LET key == Chars(SubSeq(t, i + 1, keyEnd - 1))
                   strEnd == ScanQuote(t, v + 1)
                   numEnd == ScanDigits(t, v)
                   leadingZero == t[v] = 48 /\ numEnd > v + 1
                   value == IF t[v] = 34
                            THEN [string |-> TRUE, str |-> Chars(SubSeq(t, v + 1, strEnd - 1)),
                                  num |-> 0]
                            ELSE [string |-> FALSE, str |-> EmptyString,
                                  num |-> DigitsToNat(SubSeq(t, v, numEnd - 1))]
                   next == IF t[v] = 34 THEN strEnd + 1 ELSE numEnd
               IN IF (t[v] = 34 /\ strEnd = 0) \/ (t[v] # 34 /\ (numEnd = v \/ leadingZero))
                     \/ next > Len(t)
                  THEN JsonThrows
                  ELSE IF t[next] = 125
                  THEN IF next = Len(t)
                       THEN [threw |-> FALSE, members |-> MapSet(members, key, value)]
                       ELSE JsonThrows
                  ELSE IF t[next] = 44
                  THEN JsonMembers(t, next + 1, MapSet(members, key, value))
                  ELSE JsonThrows

\* JSON.parse(text): whether it throws, and the members of the object
JsonParse(text) ==
  LET t == text.txt
  IN IF Len(t) < 2 \/ t[1] # 123 THEN JsonThrows
     ELSE IF t[2] = 125 THEN IF Len(t) = 2 THEN [threw |-> FALSE, members |-> <<>>]
                             ELSE JsonThrows
     ELSE JsonMembers(t, 2, <<>>)

\* whether object[key] is truthy: there, and neither '' nor 0
Truthy(members, key) ==
  /\ key \in MapKeySet(members)
  /\ LET value == MapGet(members, key)
     IN IF value.string THEN value.str.len > 0 ELSE value.num # 0

\* Date.now() - object.timestamp < limit, object.timestamp truthy: a number, or
\* a string that converts to one (here: of digits only)
RecentTimestamp(members, currentTime, limit) ==
  LET value == MapGet(members, Chars(<<116, 105, 109, 101, 115, 116, 97, 109, 112>>))
  IN IF value.string
     THEN /\ ScanDigits(value.str.txt, 1) = Len(value.str.txt) + 1
          /\ currentTime - DigitsToNat(value.str.txt) < limit
     ELSE currentTime - value.num < limit

\* ZKProofGenerator.verifyVoteProof at the time currentTime: whether what it
\* resolves to is truthy
verifyVoteProof(proof, publicInputs, currentTime) ==
  LET proofData == JsonParse(proof)
  IN /\ ~proofData.threw
     /\ Truthy(proofData.members, Chars(<<110, 117, 108, 108, 105, 102, 105, 101, 114, 72, 97,
                                          115, 104>>))
     /\ Truthy(proofData.members, Chars(<<118, 111, 116, 101, 67, 111, 109, 109, 105, 116,
                                          109, 101, 110, 116>>))
     /\ Truthy(proofData.members, Chars(<<109, 111, 99, 107, 80, 114, 111, 111, 102>>))
     /\ Truthy(proofData.members, Chars(<<116, 105, 109, 101, 115, 116, 97, 109, 112>>))
     /\ RecentTimestamp(proofData.members, currentTime, ProofWindow)

----------------------------------------------------------------------------
(* CircuitBreaker(FailureThreshold, RecoveryTimeout) and the error log of    *)
(* ErrorHandler, held as its length.                                         *)

\* logError: push, then shift once the log is longer than maxLogSize
logError(log) == IF log + 1 > MaxLogSize THEN log ELSE log + 1

\* the part of execute before the operation is called, at the time
\* currentTime: the breaker after it, and the error thrown if there is one
executeEnter(b, currentTime) ==
  IF b.state = "open"
  THEN IF currentTime - b.lastFailureTime > RecoveryTimeout
       THEN [breaker |-> [b EXCEPT !.state = "half-open"], threw |-> FALSE,
             message |-> NoReason]
       ELSE [breaker |-> b, threw |-> TRUE,
             message |-> "Circuit breaker is open - operation temporarily unavailable"]
  ELSE [breaker |-> b, threw |-> FALSE, message |-> NoReason]

onSuccess(b) == [b EXCEPT !.failures = 0, !.state = "closed"]

\* a breaker that opens only above the threshold
onFailureAbove(b, currentTime) ==
  LET failures == b.failures + 1
  IN [failures |-> failures, lastFailureTime |-> currentTime,
      state |-> IF failures > FailureThreshold THEN "open" ELSE b.state]

onFailure(b, currentTime) ==
  LET failures == b.failures + 1
  IN [failures |-> failures, lastFailureTime |-> currentTime,
      state |-> IF failures >= FailureThreshold THEN "open" ELSE b.state]

----------------------------------------------------------------------------
(* AnonymousVotingContract.  The contract is written against the Midnight    *)
(* SDK: a Field is held as its decimal string, x.assertEquals(y) aborts the  *)
(* call unless x equals y, and emitEvent appends to the event log.  The Maps *)
(* are sequences of [key, proof] entries, proof holding the value.           *)

\* init(), as far as castVote, createProposal and revealResults read it
InitialContract ==
  [voterRegistryRoot |-> IntToString(0), proposalCount |-> 0, usedNullifiers |-> <<>>,
   proposals |-> <<>>, emitted |-> <<>>]

createProposal(c, title, description, votingDeadline) ==
  LET proposalId == c.proposalCount
      newProposal == [id |-> IntToString(proposalId), title |-> title,
                      description |-> description, deadline |-> votingDeadline,
                      yesVotes |-> 0, noVotes |-> 0, totalWeight |-> 0, active |-> TRUE]
  IN [c EXCEPT !.proposals = MapSet(c.proposals, IntToString(proposalId), newProposal),
               !.proposalCount = proposalId + 1,
               !.emitted = Append(c.emitted, [event |-> "ProposalCreated",
                                              proposalId |-> IntToString(proposalId)])]

\* the placeholder
verifyZKProof(proof, publicInputs) == TRUE

\* castVote without the check of the nullifier
castVoteUnchecked(c, proposalId, nullifierHash, voteCommitment, zkProof) ==
  IF proposalId \notin MapKeySet(c.proposals) THEN [threw |-> TRUE, contract |-> c]
  ELSE IF MapGet(c.proposals, proposalId).active # TRUE THEN [threw |-> TRUE, contract |-> c]
  ELSE [threw |-> FALSE,
        contract |-> [c EXCEPT !.usedNullifiers = MapSet(c.usedNullifiers, nullifierHash, TRUE),
                               !.emitted = Append(c.emitted, [event |-> "VoteCast",
                                                              proposalId |-> proposalId])]]

\* castVote: whether the call aborted, and the contract after it.  The
\* proposal missing, the proposal not active and the nullifier used abort
\* it; what verifyZKProof returns is not looked at.
castVote(c, proposalId, nullifierHash, voteCommitment, zkProof) ==
  LET verified == verifyZKProof(zkProof, [proposalId |-> proposalId,
                                          voterRegistryRoot |-> c.voterRegistryRoot,
                                          nullifierHash |-> nullifierHash,
                                          voteCommitment |-> voteCommitment])
  IN IF proposalId \notin MapKeySet(c.proposals) THEN [threw |-> TRUE, contract |-> c]
     ELSE IF MapGet(c.proposals, proposalId).active # TRUE
     THEN [threw |-> TRUE, contract |-> c]
     ELSE IF (nullifierHash \in MapKeySet(c.usedNullifiers)) # FALSE
     THEN [threw |-> TRUE, contract |-> c]
     ELSE [threw |-> FALSE,
           contract |-> [c EXCEPT
                           !.usedNullifiers = MapSet(c.usedNullifiers, nullifierHash, TRUE),
                           !.emitted = Append(c.emitted, [event |-> "VoteCast",
                                                          proposalId |-> proposalId])]]

\* the placeholder
verifyAggregationProof(proof, publicInputs) == TRUE

\* a variant that publishes the results and leaves the proposal open
revealResultsLeavingOpen(c, proposalId, yesVotes, noVotes, totalWeight, aggregationProof) ==
  IF proposalId \notin MapKeySet(c.proposals) THEN [threw |-> TRUE, contract |-> c]
  ELSE LET proposal == MapGet(c.proposals, proposalId)
       IN [threw |-> FALSE,
           contract |-> [c EXCEPT
                           !.proposals = MapSet(c.proposals, proposalId,
                                                [proposal EXCEPT !.yesVotes = yesVotes,
                                                                 !.noVotes = noVotes,
                                                                 !.totalWeight = totalWeight]),
                           !.emitted = Append(c.emitted, [event |-> "VotingCompleted",
                                                          proposalId |-> proposalId])]]

\* revealResults: whether the call aborted, and the contract after it.  Writing
\* the results to a proposal that is missing aborts it; what
\* verifyAggregationProof returns is not looked at.
revealResults(c, proposalId, yesVotes, noVotes, totalWeight, aggregationProof) ==
  LET verified == verifyAggregationProof(aggregationProof,
                                         [proposalId |-> proposalId, yesVotes |-> yesVotes,
                                          noVotes |-> noVotes, totalWeight |-> totalWeight])
  IN IF proposalId \notin MapKeySet(c.proposals) THEN [threw |-> TRUE, contract |-> c]
     ELSE LET proposal == MapGet(c.proposals, proposalId)
          IN [threw |-> FALSE,
              contract |-> [c EXCEPT
                              !.proposals = MapSet(c.proposals, proposalId,
                                                   [proposal EXCEPT !.yesVotes = yesVotes,
                                                                    !.noVotes = noVotes,
                                                                    !.totalWeight = totalWeight,
                                                                    !.active = FALSE]),
                              !.emitted = Append(c.emitted, [event |-> "VotingCompleted",
                                                             proposalId |-> proposalId])]]

----------------------------------------------------------------------------
(* CryptoPerformanceCache.  A cache is a sequence of [key, proof] entries in *)
(* insertion order, proof holding the cached value.                          *)

\* input.split('').reverse().join('')
computeHash(input) == Chars([i \in 1..Len(input.txt) |-> input.txt[Len(input.txt) + 1 - i]])

\* cache.delete(cache.keys().next().value)
DeleteFirst(cache) == Tail(cache)

\* the body shared by getHashCached and getProofCached: fresh is the value
\* computed on a miss
getCached(cache, key, fresh) ==
  IF key \in MapKeySet(cache)
  THEN [value |-> MapGet(cache, key), hit |-> TRUE, cache |-> cache]
  ELSE LET kept == IF Len(cache) >= MaxCacheSize THEN DeleteFirst(cache) ELSE cache
       IN [value |-> fresh, hit |-> FALSE, cache |-> MapSet(kept, key, fresh)]

getHashCached(cache, input) == getCached(cache, input, computeHash(input))

getProofCached(cache, key, generated) == getCached(cache, key, generated)

----------------------------------------------------------------------------
(* BatchProcessor.  An operation is named by its place in `operations`; the  *)
(* queue and the batch hold such names.  Of an operation: kind says what it  *)
(* does when called ("resolves": returns a promise that fulfils, "rejects":  *)
(* returns one that rejects, "throws": throws), started counts its calls,    *)
(* ran is the state of the promise it returned, promise the state of the     *)
(* promise addToBatch returned, and from names the operation whose value or  *)
(* error that promise was settled with.                                      *)

RECURSIVE CallOperations(_, _, _)
\* batch.map(item => item.operation()) from item i (1-based) on: the
\* operations after the calls, and the operation that threw (0 if none)
CallOperations(ops, items, i) ==
  IF i > Len(items) THEN [operations |-> ops, threw |-> 0]
  ELSE LET op == items[i]
           called == [ops EXCEPT ![op].started = @ + 1]
       IN IF ops[op].kind = "throws"
          THEN [operations |-> [called EXCEPT ![op].ran = "threw"], threw |-> op]
          ELSE CallOperations([called EXCEPT ![op].ran = "pending"], items, i + 1)

\* batch.forEach(item => item.reject(error)), error thrown by the operation by
RejectAll(ops, items, by) ==
  [op \in DOMAIN ops |->
     IF (\E i \in DOMAIN items : items[i] = op) /\ ops[op].promise = "pending"
     THEN [ops[op] EXCEPT !.promise = "rejected", !.from = by]
     ELSE ops[op]]

\* results.forEach: each promise settled as its operation settled
SettleEach(ops, items) ==
  [op \in DOMAIN ops |->
     IF (\E i \in DOMAIN items : items[i] = op) /\ ops[op].promise = "pending"
     THEN [ops[op] EXCEPT !.promise = ops[op].ran, !.from = op]
     ELSE ops[op]]

\* processBatch from the test of its while loop up to its next await
processBatch(queue, ops) ==
  IF Len(queue) > 0
  THEN LET taken == SubSeq(queue, 1, IF Len(queue) < BatchSize THEN Len(queue) ELSE BatchSize)
           rest == SubSeq(queue, Len(taken) + 1, Len(queue))
           r == CallOperations(ops, taken, 1)
       IN IF r.threw # 0
          THEN [batchQueue |-> rest, processingBatch |-> TRUE, batch |-> taken,
                loop |-> "delay", operations |-> RejectAll(r.operations, taken, r.threw)]
          ELSE [batchQueue |-> rest, processingBatch |-> TRUE, batch |-> taken,
                loop |-> "settling", operations |-> r.operations]
  ELSE [batchQueue |-> queue, processingBatch |-> FALSE, batch |-> <<>>, loop |-> "idle",
        operations |-> ops]

----------------------------------------------------------------------------
(* WorkerPool.  A worker is named by its place in made, the workers created  *)
(* so far; of a worker: busy is its flag, item the task of the work item     *)
(* that its onmessage and onerror handlers settle (0 before the first),      *)
(* posted whether a task was posted to it that it has not answered, and      *)
(* terminated whether terminate() was called on it.  A task is named by its  *)
(* place in tasks, which holds the state of the promise returned for it.     *)

\* the first worker of the pool that is not busy, 0 if there is none
FindIdle(pool, all) ==
  IF \E i \in DOMAIN pool : ~all[pool[i]].busy
  THEN pool[CHOOSE i \in DOMAIN pool :
              ~all[pool[i]].busy /\ \A j \in 1..(i - 1) : all[pool[j]].busy]
  ELSE 0

\* assignWork(): the pool, the workers and the queue after it
assignWork(pool, all, queue) ==
  IF Len(queue) = 0 THEN [workers |-> pool, made |-> all, workerQueue |-> queue]
  ELSE LET found == FindIdle(pool, all)
           create == found = 0 /\ Len(pool) < MaxWorkers
           createdAll == IF create
                         THEN Append(all, [busy |-> FALSE, item |-> 0, posted |-> FALSE,
                                           terminated |-> FALSE])
                         ELSE all
           createdPool == IF create THEN Append(pool, Len(createdAll)) ELSE pool
           worker == IF create THEN Len(createdAll) ELSE found
       IN IF worker # 0
          THEN [workers |-> createdPool,
                made |-> [createdAll EXCEPT ![worker].busy = TRUE,
                                            ![worker].item = Head(queue),
                                            ![worker].posted = TRUE],
                workerQueue |-> Tail(queue)]
          ELSE [workers |-> pool, made |-> all, workerQueue |-> queue]

\* terminateWorkers(): the pool, the workers and the queue after it
terminateWorkers(pool, all, queue) ==
  [workers |-> <<>>,
   made |-> [w \in DOMAIN all |->
               IF \E i \in DOMAIN pool : pool[i] = w
               THEN [all[w] EXCEPT !.terminated = TRUE] ELSE all[w]],
   workerQueue |-> <<>>]

----------------------------------------------------------------------------
(* RealMidnightWallet.  `this` is the record of the fields wallet (whether   *)
(* this.wallet is not null), accounts and activeAccount, and of listening,   *)
(* whether the handlers are registered with the wallet.  A reply of the      *)
(* wallet is [threw, value].                                                 *)

\* no call made yet; live: a connect() has returned success = true and no
\* disconnect() has completed since
NoWalletCall == [op |-> "none", success |-> FALSE, accounts |-> <<>>, live |-> FALSE]

\* connect(): the object afterwards and what is returned
connect(isInstalled, this, connectReply, activeReply) ==
  LET failed == [success |-> FALSE, accounts |-> <<>>, activeAccount |-> ""]
  IN IF ~isInstalled THEN [this |-> this, result |-> failed]
     ELSE IF connectReply.threw
     THEN [this |-> [this EXCEPT !.wallet = TRUE], result |-> failed]
     ELSE IF Len(connectReply.value) = 0
     THEN [this |-> [this EXCEPT !.wallet = TRUE, !.accounts = connectReply.value],
           result |-> failed]
     ELSE IF activeReply.threw
     THEN [this |-> [this EXCEPT !.wallet = TRUE, !.accounts = connectReply.value],
           result |-> failed]
     ELSE [this |-> [wallet |-> TRUE, accounts |-> connectReply.value,
                     activeAccount |-> activeReply.value, listening |-> TRUE],
           result |-> [success |-> TRUE, accounts |-> connectReply.value,
                       activeAccount |-> activeReply.value]]

\* disconnect(): the object afterwards and whether the call threw
disconnect(this, disconnectThrows) ==
  IF this.wallet
  THEN IF disconnectThrows THEN [this |-> this, threw |-> TRUE]
       ELSE [this |-> [this EXCEPT !.wallet = FALSE, !.accounts = <<>>, !.activeAccount = ""],
             threw |-> FALSE]
  ELSE [this |-> this, threw |-> FALSE]

\* getWalletInfo(), without the version
getWalletInfo(this) ==
  [isConnected |-> this.wallet, accounts |-> this.accounts,
   activeAccount |-> this.activeAccount]

\* handleAccountsChanged(accounts)
handleAccountsChanged(this, changed) ==
  [this EXCEPT !.accounts = changed,
               !.activeAccount = IF Len(changed) > 0 THEN changed[1] ELSE ""]

\* handleDisconnect()
handleDisconnect(this) ==
  [this EXCEPT !.accounts = <<>>, !.activeAccount = "", !.wallet = FALSE]

----------------------------------------------------------------------------
(* The state machine *)

NoCredentials ==
  [given |-> FALSE, voterSecret |-> EmptyString, voterIndex |-> 0, merkleProof |-> <<>>,
   merkleIndices |-> <<>>]

NoEligibility == [made |-> FALSE, result |-> FALSE, size |-> 0]

\* first is the place among the ballots of the first accepted attempt of the
\* same voter and proposal, 0 if there is none
NoAttempt ==
  [made |-> FALSE, voterSecret |-> EmptyString, proposalId |-> EmptyString, voteChoice |-> 0,
   timestamp |-> 0, first |-> 0,
   result |-> [success |-> FALSE, nullifier |-> EmptyString, reason |-> NoReason,
               previousVote |-> NoRecord]]

\* 'Aa' and 'BB'
ServiceSecrets == {Chars(<<65, 97>>), Chars(<<66, 66>>)}

\* '1' and '3'
ServiceProposals == {Chars(<<49>>), Chars(<<51>>)}

NoEligibilityResult ==
  [canVote |-> FALSE, nullifier |-> EmptyString, reason |-> NoReason,
   previousVoteTime |-> NoTime]

NoStatus ==
  [status |-> "checking", message |-> NoReason,
   details |-> [nullifier |-> EmptyString, previousVoteTime |-> NoTime,
                timeAgo |-> EmptyString]]

\* voted tells whether a vote of the voter on the proposal was held when the
\* call was made
NoAnswer ==
  [made |-> FALSE, op |-> "none", voterSecret |-> EmptyString, proposalId |-> EmptyString,
   voted |-> FALSE, eligibility |-> NoEligibilityResult, status |-> NoStatus]

\* the votes initializeDemoData stores, with their voters
\* a handleVote call: stage is where it stands ("idle": not made, "proving":
\* at the await of generateVoteProof, "confirming": at the await of the
\* transaction delay, "done": returned), outcome how it ended ("refused": the
\* alert of the eligibility check, "failed": the alert of the catch block,
\* "submitted": the alert of success), added whether its recordVote call put a
\* record into the map
NoFlow ==
  [stage |-> "idle", voterSecret |-> EmptyString, proposalId |-> EmptyString,
   nullifier |-> EmptyString, outcome |-> "none", added |-> FALSE]

DemoRecorded ==
  {[voterSecret |-> demoVotes(0)[i].voterSecret, proposalId |-> demoVotes(0)[i].proposalId,
    nullifier |-> serviceGenerateNullifier(demoVotes(0)[i].voterSecret,
                                           demoVotes(0)[i].proposalId)] : i \in 1..3}

NoListings == [p \in ServiceProposals |-> <<>>]

Sides == {"left", "right"}

\* '0.a' and '0.b'
Random36 == {Chars(<<48, 46, 97>>), Chars(<<48, 46, 98>>)}

\* 'n'
ProofNullifiers == {Chars(<<110>>)}

NoVoteData ==
  [proposalId |-> EmptyString, choice |-> 0, voterSecret |-> EmptyString,
   nullifier |-> EmptyString]

\* a generation: who ran it ("zk" the ZKProofGenerator, "provider" the
\* MidnightProvider), on what, what came out, and the time it read
NoGeneration ==
  [made |-> FALSE, by |-> "none", voteData |-> NoVoteData, threw |-> FALSE,
   proof |-> EmptyString, publicInputs |-> <<>>, at |-> 0]

\* a verifyVoteProof call: the proof, the timestamp it carries, whether
\* generateVoteProof produced it (or a caller wrote it), the time of the call
\* and what it resolved to
NoChecked ==
  [made |-> FALSE, proof |-> EmptyString, dated |-> 0, produced |-> FALSE, at |-> 0,
   result |-> FALSE]

\* what: "started" (the operation was called), "rejected" (execute threw
\* without calling it), "succeeded" or "failed" (a started operation settled);
\* before is the breaker before it happened, trial tells whether the call is
\* one that found the breaker open with the recovery timeout over
NoExecuted ==
  [what |-> "none", message |-> NoReason,
   before |-> [failures |-> 0, lastFailureTime |-> 0, state |-> "closed"], at |-> 0,
   trial |-> FALSE]

NoCast ==
  [made |-> FALSE, proposalId |-> EmptyString, nullifierHash |-> EmptyString,
   voteCommitment |-> EmptyString, zkProof |-> NoZKProof, threw |-> FALSE,
   before |-> InitialContract]

\* 'ax', 'bx', ...: two keys more than a cache holds
CacheKeys == {Chars(<<96 + i, 120>>) : i \in 1..(MaxCacheSize + 2)}

\* what a generator returns: 'proof_1' or 'proof_2'
Generated == {Literal(18, 7), Literal(19, 7)}

NoKey == [some |-> FALSE, key |-> EmptyString]

SomeKey(k) == [some |-> TRUE, key |-> k]

\* evicted is the key the call deleted; stalest is the key that, before the
\* call, had gone unused the longest
NoLookup ==
  [made |-> FALSE, cache |-> "none", key |-> EmptyString, hit |-> FALSE,
   value |-> EmptyString, evicted |-> NoKey, stalest |-> NoKey]

Init ==
  /\ now = StartTime
  /\ pc = "idle"
  /\ held = NoHeld
  /\ call = NoCall
  /\ nullifiers = <<>>
  /\ merkleTree = <<>>
  /\ registryRoot = EmptyString
  /\ racers = <<>>
  /\ voters = <<>>
  /\ voterTree = <<>>
  /\ merkleRoot = EmptyString
  /\ issued = NoCredentials
  /\ eligibility = NoEligibility
  /\ usedNullifiers = <<>>
  /\ nullifierHistory = <<>>
  /\ ballots = <<>>
  /\ attempt = NoAttempt
  /\ serviceNullifiers = initializeDemoData(<<>>, StartTime)
  /\ recorded = DemoRecorded
  /\ answer = NoAnswer
  /\ listings = NoListings
  /\ connected = FALSE
  /\ generations = [side \in Sides |-> NoGeneration]
  /\ checked = NoChecked
  /\ breaker = [failures |-> 0, lastFailureTime |-> 0, state |-> "closed"]
  /\ running = 0
  /\ trials = 0
  /\ executed = NoExecuted
  /\ streak = 0
  /\ errorLog = 0
  /\ contract = InitialContract
  /\ cast = NoCast
  /\ hashCache = <<>>
  /\ proofCache = <<>>
  /\ recency = [cache \in {"hash", "proof"} |-> <<>>]
  /\ lookup = NoLookup
  /\ batchQueue = <<>>
  /\ processingBatch = FALSE
  /\ batch = <<>>
  /\ loop = "idle"
  /\ operations = <<>>
  /\ flows = [f \in 1..MaxFlows |-> NoFlow]
  /\ workers = <<>>
  /\ made = <<>>
  /\ workerQueue = <<>>
  /\ tasks = <<>>
  /\ installed = FALSE
  /\ wallet = FALSE
  /\ accounts = <<>>
  /\ activeAccount = ""
  /\ listening = FALSE
  /\ walletCall = NoWalletCall

\* time passes; the clock is read by the calls only, so it is advanced only
\* while the caller is between calls
Tick ==
  /\ pc \in {"idle", "holding", "racing"}
  /\ \E t \in Clock : t > now /\ now' = t
  /\ UNCHANGED <<pc, held, call, registry>>
  /\ UNCHANGED <<racers, elsewhere>>

\* the caller runs generateSecureNullifier(Credential(v), proposalId, voteChoice)
\* and holds the bundle it returns (held.original keeps it as returned)
Generate(v, proposalId, voteChoice, nonceDraw, blindingDraw) ==
  /\ pc = "idle"
  /\ IF ValidVoteChoice(voteChoice)
     THEN LET b == generateSecureNullifier(Credential(v), Chars(proposalId), voteChoice,
                                           nonceDraw, blindingDraw, now)
          IN /\ pc' = "holding"
             /\ held' = [voter |-> v, proposalId |-> proposalId, voteChoice |-> voteChoice,
                         genTime |-> now, tamper |-> NoTamper, original |-> b, bundle |-> b]
     ELSE /\ pc' = "threw"
          /\ held' = [voter |-> v, proposalId |-> proposalId, voteChoice |-> voteChoice,
                      genTime |-> now, tamper |-> NoTamper, original |-> NoBundle,
                      bundle |-> NoBundle]
  /\ call' = NoCall
  /\ UNCHANGED <<now, registry>>
  /\ UNCHANGED <<racers, elsewhere>>

\* the caller alters one field of the bundle it holds
Tamper(t) ==
  /\ pc = "holding"
  /\ held.tamper = NoTamper
  /\ held' = [held EXCEPT !.tamper = t, !.bundle = ApplyTamper(held.bundle, t, now)]
  /\ UNCHANGED <<now, pc, call, registry>>
  /\ UNCHANGED <<racers, elsewhere>>

\* registry.addNullifier(held.bundle, proposalId)
AddNullifier(proposalId) ==
  /\ pc = "holding"
  /\ Len(nullifiers) < MaxStored
  /\ LET reg == [nullifiers |-> nullifiers, merkleTree |-> merkleTree,
                 registryRoot |-> registryRoot]
         r == addNullifier(reg, held.bundle, Chars(proposalId), now)
     IN /\ nullifiers' = r.reg.nullifiers
        /\ merkleTree' = r.reg.merkleTree
        /\ registryRoot' = r.reg.registryRoot
        /\ call' = [op |-> "addNullifier", proposalId |-> proposalId, root |-> registryRoot,
                    at |-> now, seen |-> held.bundle.nullifier \in MapKeySet(nullifiers),
                    result |-> r.result, reason |-> r.reason, after |-> "none"]
  /\ pc' = "returned"
  /\ UNCHANGED <<now, held>>
  /\ UNCHANGED <<racers, elsewhere>>

\* SecureCryptographicNullifier.verifyNullifierProof(held.bundle, proposalId, root)
VerifyNullifierProof(proposalId, root) ==
  /\ pc = "holding"
  /\ call' = [op |-> "verifyNullifierProof", proposalId |-> proposalId, root |-> root,
              at |-> now, seen |-> held.bundle.nullifier \in MapKeySet(nullifiers),
              result |-> verifyNullifierProof(held.bundle, Chars(proposalId), root, now),
              reason |-> NoReason, after |-> "none"]
  /\ pc' = "returned"
  /\ UNCHANGED <<now, held, registry>>
  /\ UNCHANGED <<racers, elsewhere>>

\* the caller waits until the later time t and repeats its last
\* verifyNullifierProof call with the same bundle, proposal id and root
VerifyAgain(t) ==
  /\ pc = "returned"
  /\ call.op = "verifyNullifierProof"
  /\ t > now
  /\ now' = t
  /\ call' = [call EXCEPT
                !.at = t,
                !.after = call.op,
                !.result = verifyNullifierProof(held.bundle, Chars(call.proposalId),
                                                call.root, t)]
  /\ UNCHANGED <<pc, held, registry>>
  /\ UNCHANGED <<racers, elsewhere>>

\* registry.verifyRegistryIntegrity(), on its own or right after an addNullifier
\* call (call.after tells which)
VerifyRegistryIntegrity ==
  /\ pc \in {"idle", "holding"} \/ (pc = "returned" /\ call.op = "addNullifier")
  /\ call' = [NoCall EXCEPT !.op = "verifyRegistryIntegrity", !.root = registryRoot,
                            !.at = now, !.result = verifyRegistryIntegrity(nullifiers),
                            !.after = call.op]
  /\ pc' = "returned"
  /\ UNCHANGED <<now, held, registry>>
  /\ UNCHANGED <<racers, elsewhere>>

\* the caller keeps the bundle for another call
Keep ==
  /\ pc = "returned"
  /\ held # NoHeld
  /\ pc' = "holding"
  /\ call' = NoCall
  /\ UNCHANGED <<now, held, registry>>
  /\ UNCHANGED <<racers, elsewhere>>

\* the caller lets go of the bundle, or of the error it caught
Drop ==
  /\ pc \in {"holding", "returned", "threw"}
  /\ pc' = "idle"
  /\ held' = NoHeld
  /\ call' = NoCall
  /\ UNCHANGED <<now, registry>>
  /\ UNCHANGED <<racers, elsewhere>>

Next ==
  \/ Tick
  \/ \E v \in Voters, p \in ProposalIds, c \in VoteChoices, n \in Draws, b \in BlindingDraws :
       Generate(v, p, c, n, b)
  \/ \E t \in Tampers : Tamper(t)
  \/ \E p \in ProposalIds : AddNullifier(p)
  \/ \E p \in ProposalIds, r \in Roots : VerifyNullifierProof(p, r)
  \/ \E t \in Clock : VerifyAgain(t)
  \/ VerifyRegistryIntegrity
  \/ Keep
  \/ Drop

Spec == Init /\ [][Next]_vars

----------------------------------------------------------------------------
(* The registry's map written from outside the class: the field is private   *)
(* to the compiler only, so (registry as any).nullifiers can be changed      *)
(* without addNullifier and without updateMerkleTree.                        *)

\* the keys written from outside: three digests
OutOfBandKeys == {SHA256(Literal(12, 1)), SHA256(Literal(13, 1)), SHA256(Literal(14, 1))}

\* nullifiers.set(k, proof), the proof naming the nullifier n
OutOfBandSet(k, n) ==
  /\ pc = "idle"
  /\ nullifiers' = MapSet(nullifiers, k, [NoBundle EXCEPT !.nullifier = n])
  /\ UNCHANGED <<now, pc, held, call, merkleTree, registryRoot>>
  /\ UNCHANGED <<racers, elsewhere>>

\* nullifiers.delete(k)
OutOfBandDelete(k) ==
  /\ pc = "idle"
  /\ k \in MapKeySet(nullifiers)
  /\ nullifiers' = SelectSeq(nullifiers, LAMBDA entry : entry.key # k)
  /\ UNCHANGED <<now, pc, held, call, merkleTree, registryRoot>>
  /\ UNCHANGED <<racers, elsewhere>>

NextOutOfBand ==
  \/ Tick
  \/ \E k \in OutOfBandKeys, n \in OutOfBandKeys : OutOfBandSet(k, n)
  \/ \E k \in OutOfBandKeys : OutOfBandDelete(k)
  \/ VerifyRegistryIntegrity
  \/ Drop

SpecOutOfBand == Init /\ [][NextOutOfBand]_vars

----------------------------------------------------------------------------
(* Several addNullifier calls in flight for one bundle, as in                *)
(* PenetrationTester.testRaceConditionExploit. addNullifier is synchronous:  *)
(* it has no await, so each call runs to completion as one step, and the     *)
(* calls may run in any order.                                               *)

\* a call not yet run
Pending == [done |-> FALSE, result |-> FALSE]

\* the caller issues MaxRacers calls registry.addNullifier(held.bundle, proposalId)
StartRace(proposalId) ==
  /\ pc = "holding"
  /\ pc' = "racing"
  /\ call' = [NoCall EXCEPT !.op = "addNullifier", !.proposalId = proposalId]
  /\ racers' = [i \in 1..MaxRacers |-> Pending]
  /\ UNCHANGED <<now, held, registry, elsewhere>>

\* the i-th of the calls runs
RaceStep(i) ==
  /\ pc = "racing"
  /\ ~racers[i].done
  /\ LET reg == [nullifiers |-> nullifiers, merkleTree |-> merkleTree,
                 registryRoot |-> registryRoot]
         r == addNullifier(reg, held.bundle, Chars(call.proposalId), now)
     IN /\ nullifiers' = r.reg.nullifiers
        /\ merkleTree' = r.reg.merkleTree
        /\ registryRoot' = r.reg.registryRoot
        /\ racers' = [racers EXCEPT ![i] = [done |-> TRUE, result |-> r.result]]
  /\ UNCHANGED <<now, pc, held, call, elsewhere>>

\* every call has returned and the caller lets go of the bundle
EndRace ==
  /\ pc = "racing"
  /\ \A i \in DOMAIN racers : racers[i].done
  /\ pc' = "idle"
  /\ held' = NoHeld
  /\ call' = NoCall
  /\ racers' = <<>>
  /\ UNCHANGED <<now, registry, elsewhere>>

NextRace ==
  \/ Tick
  \/ \E v \in Voters, p \in ProposalIds, c \in VoteChoices, n \in Draws, b \in BlindingDraws :
       Generate(v, p, c, n, b)
  \/ \E p \in ProposalIds : StartRace(p)
  \/ \E i \in 1..MaxRacers : RaceStep(i)
  \/ EndRace
  \/ Drop

SpecRace == Init /\ [][NextRace]_vars

----------------------------------------------------------------------------
(* A VoterRegistry and a caller that may keep the credentials a registration *)
(* returns and check them with verifyVoterEligibility.                       *)

\* what the callers of the VoterRegistry leave alone
beyondVoters == <<pc, held, call, registry, racers, preventionVars, laterVars>>

\* registry.addEligibleVoter(voterSecret, eligibilityProof); with keep the
\* caller holds on to the credentials returned
AddEligibleVoter(voterSecret, eligibilityProof, keep) ==
  /\ Len(voterTree) < MaxLeaves
  /\ LET reg == [voters |-> voters, merkleTree |-> voterTree, merkleRoot |-> merkleRoot]
         r == addEligibleVoter(reg, voterSecret, eligibilityProof, now)
     IN /\ voters' = r.reg.voters
        /\ voterTree' = r.reg.merkleTree
        /\ merkleRoot' = r.reg.merkleRoot
        /\ issued' = IF keep
                     THEN [given |-> TRUE, voterSecret |-> r.credentials.voterSecret,
                           voterIndex |-> r.credentials.voterIndex,
                           merkleProof |-> r.credentials.merkleProof,
                           merkleIndices |-> r.credentials.merkleIndices]
                     ELSE issued
        /\ eligibility' = IF keep THEN NoEligibility ELSE eligibility
  /\ UNCHANGED <<now, beyondVoters>>

\* registry.verifyVoterEligibility on the credentials the caller holds
VerifyVoterEligibility ==
  /\ issued.given
  /\ eligibility' =
       [made |-> TRUE,
        result |-> verifyVoterEligibility(merkleRoot, issued.voterSecret, issued.merkleProof,
                                          issued.merkleIndices),
        size |-> Len(voterTree)]
  /\ UNCHANGED <<voters, voterTree, merkleRoot, issued>>
  /\ UNCHANGED <<now, beyondVoters>>

NextVoters ==
  \/ \E s \in VoterSecrets, e \in EligibilityProofs, keep \in BOOLEAN :
       AddEligibleVoter(s, e, keep)
  \/ VerifyVoterEligibility

SpecVoters == Init /\ [][NextVoters]_vars

----------------------------------------------------------------------------
(* A DoubleVotePreventionSystem and its caller. ballots lists the attempts   *)
(* accepted since the last reset.                                            *)

\* what the callers of the DoubleVotePreventionSystem leave alone
beyondPrevention == <<now, pc, held, call, registry, racers, voterVars, laterVars>>

\* the places among the ballots of the accepted attempts of a voter and proposal
BallotsOf(voterSecret, proposalId) ==
  {i \in DOMAIN ballots : ballots[i].voterSecret = voterSecret
                           /\ ballots[i].proposalId = proposalId}

\* the smallest member of a non-empty set of numbers
Least(S) == CHOOSE i \in S : \A j \in S : i <= j

\* system.attemptVote({proposalId, voterSecret, voteChoice, timestamp})
AttemptVote(voterSecret, proposalId, voteChoice, timestamp) ==
  LET sys == [usedNullifiers |-> usedNullifiers, nullifierHistory |-> nullifierHistory]
      voteAttempt == [proposalId |-> proposalId, voterSecret |-> voterSecret,
                      voteChoice |-> voteChoice, timestamp |-> timestamp]
      r == attemptVote(sys, voteAttempt)
      earlier == BallotsOf(voterSecret, proposalId)
  IN /\ \/ Len(nullifierHistory) < MaxVotes
        \/ isNullifierUsed(usedNullifiers, generateNullifier(voterSecret, proposalId))
     /\ usedNullifiers' = r.sys.usedNullifiers
     /\ nullifierHistory' = r.sys.nullifierHistory
     /\ ballots' = IF r.result.success THEN Append(ballots, voteAttempt) ELSE ballots
     /\ attempt' = [made |-> TRUE, voterSecret |-> voterSecret, proposalId |-> proposalId,
                    voteChoice |-> voteChoice, timestamp |-> timestamp,
                    first |-> IF earlier = {} THEN 0 ELSE Least(earlier),
                    result |-> r.result]
     /\ UNCHANGED beyondPrevention

\* system.reset()
Reset ==
  /\ usedNullifiers' = <<>>
  /\ nullifierHistory' = <<>>
  /\ ballots' = <<>>
  /\ attempt' = NoAttempt
  /\ UNCHANGED beyondPrevention

NextPrevention ==
  \/ \E s \in VoterSecrets, p \in ProposalNames, c \in {0, 1}, t \in AttemptTimes :
       AttemptVote(s, p, c, t)
  \/ Reset

SpecPrevention == Init /\ [][NextPrevention]_vars

\* 'a' and 'a:A'
SecretsWithColon == {Chars(<<97>>), Chars(<<97, 58, 65>>)}

\* 'B' and 'A:B'
ProposalsWithColon == {Chars(<<66>>), Chars(<<65, 58, 66>>)}

\* the same system, called with secrets and proposal ids that contain ':'
NextSeparator ==
  \/ \E s \in SecretsWithColon, p \in ProposalsWithColon, c \in {0, 1}, t \in AttemptTimes :
       AttemptVote(s, p, c, t)
  \/ Reset

SpecSeparator == Init /\ [][NextSeparator]_vars

----------------------------------------------------------------------------
(* The NullifierService singleton, its callers and an observer of the public *)
(* lists.  recorded holds, for every vote in the map, the voter, the         *)
(* proposal and the nullifier it is stored under.                            *)

\* the state of the components modelled before the NullifierService
earlierVars == <<pc, held, call, registry, racers, voterVars, preventionVars>>

\* what the callers of the NullifierService leave alone
beyondService ==
  <<now, earlierVars, proofVars, breakerVars, contractVars, cacheVars, batchVars, lastVars>>

\* a vote of the voter on the proposal is held
Recorded(voterSecret, proposalId) ==
  \E r \in recorded : r.voterSecret = voterSecret /\ r.proposalId = proposalId

\* nullifierService.checkVoteEligibility(voterSecret, proposalId)
CheckVoteEligibility(voterSecret, proposalId) ==
  /\ answer' = [made |-> TRUE, op |-> "checkVoteEligibility", voterSecret |-> voterSecret,
                proposalId |-> proposalId, voted |-> Recorded(voterSecret, proposalId),
                eligibility |-> checkVoteEligibility(serviceNullifiers, voterSecret,
                                                     proposalId),
                status |-> NoStatus]
  /\ UNCHANGED <<serviceNullifiers, recorded, listings>>
  /\ UNCHANGED beyondService

\* nullifierService.getVoteStatus(voterSecret, proposalId)
GetVoteStatus(voterSecret, proposalId) ==
  /\ answer' = [made |-> TRUE, op |-> "getVoteStatus", voterSecret |-> voterSecret,
                proposalId |-> proposalId, voted |-> Recorded(voterSecret, proposalId),
                eligibility |-> NoEligibilityResult,
                status |-> getVoteStatus(serviceNullifiers, voterSecret, proposalId, now)]
  /\ UNCHANGED <<serviceNullifiers, recorded, listings>>
  /\ UNCHANGED beyondService

\* nullifierService.recordVote(voterSecret, proposalId)
RecordVote(voterSecret, proposalId) ==
  LET r == recordVote(serviceNullifiers, voterSecret, proposalId, now)
  IN /\ \/ Cardinality(recorded) < Cardinality(DemoRecorded) + MaxRecords
        \/ ~checkVoteEligibility(serviceNullifiers, voterSecret, proposalId).canVote
     /\ serviceNullifiers' = r.used
     /\ recorded' = IF r.result.reason = "Vote successfully recorded"
                    THEN recorded \cup {[voterSecret |-> voterSecret,
                                         proposalId |-> proposalId,
                                         nullifier |-> r.result.nullifier]}
                    ELSE recorded
     /\ answer' = [made |-> TRUE, op |-> "recordVote", voterSecret |-> voterSecret,
                   proposalId |-> proposalId, voted |-> Recorded(voterSecret, proposalId),
                   eligibility |-> r.result, status |-> NoStatus]
     /\ UNCHANGED listings
     /\ UNCHANGED beyondService

\* an observer fetches nullifierService.getProposalNullifiers(proposalId)
GetProposalNullifiers(proposalId) ==
  /\ listings' = [listings EXCEPT
                    ![proposalId] = getProposalNullifiers(serviceNullifiers, proposalId)]
  /\ UNCHANGED <<serviceNullifiers, recorded, answer>>
  /\ UNCHANGED beyondService

\* nullifierService.reset(); the observer starts over as well
ResetService ==
  /\ serviceNullifiers' = initializeDemoData(<<>>, now)
  /\ recorded' = DemoRecorded
  /\ answer' = NoAnswer
  /\ listings' = NoListings
  /\ UNCHANGED beyondService

NextService ==
  \/ Tick
  \/ \E s \in ServiceSecrets, p \in ServiceProposals : CheckVoteEligibility(s, p)
  \/ \E s \in ServiceSecrets, p \in ServiceProposals : GetVoteStatus(s, p)
  \/ \E s \in ServiceSecrets, p \in ServiceProposals : RecordVote(s, p)
  \/ ResetService

SpecService == Init /\ [][NextService]_vars

\* the service with voters that record votes and an observer of the lists
NextObserver ==
  \/ \E s \in ServiceSecrets, p \in ServiceProposals : RecordVote(s, p)
  \/ \E p \in ServiceProposals : GetProposalNullifiers(p)
  \/ ResetService

SpecObserver == Init /\ [][NextObserver]_vars

----------------------------------------------------------------------------
(* handleVote calls of VotePages over the NullifierService singleton, each   *)
(* made with a proposal loaded, a choice selected and the provider           *)
(* connected.  A call runs to its first await in one step, and from one      *)
(* await to the next in one step.                                            *)

\* what handleVote leaves alone
beyondFlows ==
  <<now, earlierVars, answer, listings, proofVars, breakerVars, contractVars, cacheVars,
    batchVars, poolVars, walletVars>>

\* handleVote() by the voter on the page of the proposal, up to the await of
\* generateVoteProof
HandleVote(f, voterSecret, proposalId) ==
  LET eligibilityCheck == checkVoteEligibility(serviceNullifiers, voterSecret, proposalId)
  IN /\ flows[f].stage = "idle"
     /\ \A g \in 1..(f - 1) : flows[g].stage # "idle"
     /\ flows' = [flows EXCEPT
                    ![f] = IF ~eligibilityCheck.canVote
                           THEN [NoFlow EXCEPT !.stage = "done", !.voterSecret = voterSecret,
                                               !.proposalId = proposalId,
                                               !.nullifier = eligibilityCheck.nullifier,
                                               !.outcome = "refused"]
                           ELSE [NoFlow EXCEPT !.stage = "proving",
                                               !.voterSecret = voterSecret,
                                               !.proposalId = proposalId,
                                               !.nullifier = eligibilityCheck.nullifier]]
     /\ UNCHANGED <<serviceNullifiers, recorded, beyondFlows>>

\* the proof of the call f is there: handleVote goes on from the await of
\* generateVoteProof to the await of the transaction delay, or to its end
ProofGenerated(f) ==
  LET voteData == [proposalId |-> flows[f].proposalId, choice |-> 1,
                   voterSecret |-> flows[f].voterSecret, nullifier |-> flows[f].nullifier]
      zkProof == providerGenerateVoteProof(TRUE, voteData, now + ProofDelay)
      voteResult == recordVote(serviceNullifiers, flows[f].voterSecret, flows[f].proposalId,
                               now + ProofDelay)
  IN /\ flows[f].stage = "proving"
     /\ IF zkProof.threw \/ ~voteResult.result.canVote
        THEN /\ flows' = [flows EXCEPT ![f].stage = "done", ![f].outcome = "failed"]
             /\ UNCHANGED <<serviceNullifiers, recorded>>
        ELSE /\ flows' = [flows EXCEPT ![f].stage = "confirming", ![f].added = TRUE]
             /\ serviceNullifiers' = voteResult.used
             /\ recorded' = recorded \cup {[voterSecret |-> flows[f].voterSecret,
                                            proposalId |-> flows[f].proposalId,
                                            nullifier |-> voteResult.result.nullifier]}
     /\ UNCHANGED beyondFlows

\* the transaction delay of the call f is over: handleVote runs to its end
TransactionDelayOver(f) ==
  /\ flows[f].stage = "confirming"
  /\ flows' = [flows EXCEPT ![f].stage = "done", ![f].outcome = "submitted"]
  /\ UNCHANGED <<serviceNullifiers, recorded, beyondFlows>>

\* the voter 'v'
FlowVoters == {Chars(<<118>>)}

\* the pages are those of the proposals 'Aa' and 'BB'
FlowProposals == {Chars(<<65, 97>>), Chars(<<66, 66>>)}

NextFlows ==
  \/ \E f \in 1..MaxFlows, s \in FlowVoters, p \in FlowProposals : HandleVote(f, s, p)
  \/ \E f \in 1..MaxFlows : ProofGenerated(f)
  \/ \E f \in 1..MaxFlows : TransactionDelayOver(f)

SpecFlows == Init /\ [][NextFlows]_vars

----------------------------------------------------------------------------
(* The WorkerPool, its callers and its workers.  A worker answers a task     *)
(* with a message or with an error; a worker that was terminated answers     *)
(* where terminate() does nothing (the stand-in used without Worker), and    *)
(* never where it is a real Worker.                                          *)

\* what the WorkerPool leaves alone
beyondPool ==
  <<now, earlierVars, serviceVars, proofVars, breakerVars, contractVars, cacheVars, batchVars,
    flowVars, walletVars>>

\* the state after assignWork or terminateWorkers
Pooled(r) ==
  /\ workers' = r.workers
  /\ made' = r.made
  /\ workerQueue' = r.workerQueue

\* WorkerPool.processInWorker(task)
ProcessInWorker ==
  /\ Len(tasks) < MaxTasks
  /\ tasks' = Append(tasks, "pending")
  /\ Pooled(assignWork(workers, made, Append(workerQueue, Len(tasks) + 1)))
  /\ UNCHANGED beyondPool

\* the worker w answers the task posted to it: onmessage (settled "resolved")
\* or onerror (settled "rejected") runs
WorkerAnswers(w, settled) ==
  /\ w \in DOMAIN made
  /\ made[w].posted
  /\ made[w].terminated => settled = "resolved"
  /\ tasks' = [tasks EXCEPT ![made[w].item] = IF @ = "pending" THEN settled ELSE @]
  /\ Pooled(assignWork(workers, [made EXCEPT ![w].busy = FALSE, ![w].posted = FALSE],
                       workerQueue))
  /\ UNCHANGED beyondPool

\* WorkerPool.terminateWorkers()
TerminateWorkers ==
  /\ Pooled(terminateWorkers(workers, made, workerQueue))
  /\ UNCHANGED <<tasks, beyondPool>>

NextPool ==
  \/ ProcessInWorker
  \/ \E w \in 1..MaxTasks, settled \in {"resolved", "rejected"} : WorkerAnswers(w, settled)
  \/ TerminateWorkers

SpecPool == Init /\ [][NextPool]_vars

----------------------------------------------------------------------------
(* The RealMidnightWallet, the page that calls it and the wallet extension   *)
(* behind window.midnight, which answers the calls and emits events.  The    *)
(* handlers are registered as bound copies, which the off() calls of         *)
(* disconnect, given the unbound methods, do not remove.                     *)

\* what the RealMidnightWallet leaves alone
beyondWallet ==
  <<now, earlierVars, serviceVars, proofVars, breakerVars, contractVars, cacheVars, batchVars,
    flowVars, poolVars>>

This == [wallet |-> wallet, accounts |-> accounts, activeAccount |-> activeAccount,
         listening |-> listening]

\* the fields of the object after a method has run
Becomes(this) ==
  /\ wallet' = this.wallet
  /\ accounts' = this.accounts
  /\ activeAccount' = this.activeAccount
  /\ listening' = this.listening

\* the account lists and the replies a wallet can give
AccountLists == {<<>>, <<"mn_a">>, <<"mn_b">>, <<"mn_a", "mn_b">>, <<"mn_b", "mn_a">>}

ConnectReplies == {[threw |-> TRUE, value |-> <<>>]} \cup
                  {[threw |-> FALSE, value |-> list] : list \in AccountLists}

ActiveReplies == {[threw |-> TRUE, value |-> ""]} \cup
                 {[threw |-> FALSE, value |-> account] : account \in {"mn_a", "mn_b"}}

\* the extension is injected into the page
WalletInstalled ==
  /\ ~installed
  /\ installed' = TRUE
  /\ UNCHANGED <<wallet, accounts, activeAccount, listening, walletCall, beyondWallet>>

\* RealMidnightWallet.connect()
ConnectWallet(connectReply, activeReply) ==
  LET r == connect(installed, This, connectReply, activeReply)
  IN /\ Becomes(r.this)
     /\ walletCall' = [op |-> "connect", success |-> r.result.success,
                       accounts |-> r.result.accounts,
                       live |-> walletCall.live \/ r.result.success]
     /\ UNCHANGED <<installed, beyondWallet>>

\* RealMidnightWallet.disconnect()
DisconnectWallet(disconnectThrows) ==
  LET r == disconnect(This, disconnectThrows)
  IN /\ Becomes(r.this)
     /\ walletCall' = [op |-> "disconnect", success |-> ~r.threw, accounts |-> <<>>,
                       live |-> walletCall.live /\ r.threw]
     /\ UNCHANGED <<installed, beyondWallet>>

\* the wallet emits 'accountsChanged'
AccountsChanged(changed) ==
  /\ listening
  /\ Becomes(handleAccountsChanged(This, changed))
  /\ walletCall' = [walletCall EXCEPT !.op = "event"]
  /\ UNCHANGED <<installed, beyondWallet>>

\* the wallet emits 'disconnect'
WalletDisconnects ==
  /\ listening
  /\ Becomes(handleDisconnect(This))
  /\ walletCall' = [walletCall EXCEPT !.op = "event"]
  /\ UNCHANGED <<installed, beyondWallet>>

NextWallet ==
  \/ WalletInstalled
  \/ \E connectReply \in ConnectReplies, activeReply \in ActiveReplies :
       ConnectWallet(connectReply, activeReply)
  \/ \E disconnectThrows \in BOOLEAN : DisconnectWallet(disconnectThrows)
  \/ \E changed \in AccountLists : AccountsChanged(changed)
  \/ WalletDisconnects

SpecWallet == Init /\ [][NextWallet]_vars

----------------------------------------------------------------------------
(* Two voters, left and right, that generate vote proofs with the           *)
(* ZKProofGenerator or through a MidnightProvider.                           *)

\* what proof generation leaves alone
beyondProofs ==
  <<now, earlierVars, serviceVars, breakerVars, contractVars, cacheVars, batchVars, lastVars>>

\* connect() of the provider has set its wallet and contract
Connect ==
  /\ ~connected
  /\ connected' = TRUE
  /\ UNCHANGED <<generations, checked, beyondProofs>>

\* disconnect() of the provider
Disconnect ==
  /\ connected
  /\ connected' = FALSE
  /\ UNCHANGED <<generations, checked, beyondProofs>>

\* ZKProofGenerator.getInstance().generateVoteProof(inputs) by the voter side
ZKGenerateVoteProof(side, voteData, random36) ==
  LET inputs == [proposalId |-> voteData.proposalId, voteChoice |-> voteData.choice,
                 voterSecret |-> voteData.voterSecret,
                 voterNullifier |-> voteData.nullifier]
      r == generateVoteProof(inputs, random36, now)
  IN /\ generations' = [generations EXCEPT
                          ![side] = [made |-> TRUE, by |-> "zk", voteData |-> voteData,
                                     threw |-> r.threw, proof |-> r.outputs.proof,
                                     publicInputs |-> <<>>, at |-> now]]
     /\ UNCHANGED <<connected, checked, beyondProofs>>

\* generateVoteProof(voteData) of the provider by the voter side
ProviderGenerateVoteProof(side, voteData) ==
  LET r == providerGenerateVoteProof(connected, voteData, now + ProofDelay)
  IN /\ generations' = [generations EXCEPT
                          ![side] = [made |-> TRUE, by |-> "provider",
                                     voteData |-> voteData, threw |-> r.threw,
                                     proof |-> r.zkProof.proof,
                                     publicInputs |-> r.zkProof.publicInputs,
                                     at |-> now + ProofDelay]]
     /\ UNCHANGED <<connected, checked, beyondProofs>>

VoteDatas ==
  [proposalId : ProposalNames, choice : {0, 1, 2}, voterSecret : {Chars(<<97>>)},
   nullifier : ProofNullifiers]

NextProofs ==
  \/ Connect
  \/ Disconnect
  \/ \E side \in Sides, v \in VoteDatas, r \in Random36 : ZKGenerateVoteProof(side, v, r)
  \/ \E side \in Sides, v \in VoteDatas : ProviderGenerateVoteProof(side, v)

SpecProofs == Init /\ [][NextProofs]_vars

----------------------------------------------------------------------------
(* Proofs of the ZKProofGenerator handed to its verifyVoteProof, at once or  *)
(* after a wait, next to proof texts of the same form that a caller dates    *)
(* as it likes.                                                              *)

\* the times the clock shows: either side of the five minutes after the start
ProofClock == {StartTime + d : d \in {1, ProofWindow - 1, ProofWindow, ProofWindow + 1}}

\* the vote of the voter 'a' for the proposal 'A'
VerifyData ==
  [proposalId |-> Chars(<<65>>), choice |-> 1, voterSecret |-> Chars(<<97>>),
   nullifier |-> Chars(<<110>>)]

\* time passes between the calls
Elapse(t) ==
  /\ t > now
  /\ now' = t
  /\ UNCHANGED <<earlierVars, laterVars>>

\* verifyVoteProof(proof, publicInputs) on the proof the voter side generated
VerifyVoteProof(side) ==
  /\ generations[side].made
  /\ ~generations[side].threw
  /\ checked' = [made |-> TRUE, proof |-> generations[side].proof,
                 dated |-> generations[side].at, produced |-> TRUE, at |-> now,
                 result |-> verifyVoteProof(generations[side].proof, <<>>, now)]
  /\ UNCHANGED <<connected, generations, beyondProofs>>

\* verifyVoteProof(proof, publicInputs) on a proof text whose timestamp is t
VerifyDated(random36, t) ==
  LET inputs == [proposalId |-> VerifyData.proposalId, voteChoice |-> VerifyData.choice,
                 voterSecret |-> VerifyData.voterSecret,
                 voterNullifier |-> VerifyData.nullifier]
      proof == generateVoteProof(inputs, random36, t).outputs.proof
  IN /\ checked' = [made |-> TRUE, proof |-> proof, dated |-> t, produced |-> FALSE,
                    at |-> now, result |-> verifyVoteProof(proof, <<>>, now)]
     /\ UNCHANGED <<connected, generations, beyondProofs>>

NextVerify ==
  \/ \E t \in ProofClock : Elapse(t)
  \/ \E side \in Sides : ZKGenerateVoteProof(side, VerifyData, Chars(<<48, 46, 97>>))
  \/ \E side \in Sides : VerifyVoteProof(side)
  \/ \E t \in ProofClock \cup {StartTime} : VerifyDated(Chars(<<48, 46, 97>>), t)

SpecVerify == Init /\ [][NextVerify]_vars

----------------------------------------------------------------------------
(* A CircuitBreaker whose callers may have several execute calls under way.  *)
(* An execute call takes two steps: it is entered, which rejects it or calls *)
(* the operation, and later its operation settles.                           *)

\* what the callers of the CircuitBreaker leave alone
beyondBreaker ==
  <<now, earlierVars, serviceVars, proofVars, contractVars, cacheVars, batchVars, lastVars>>

Saturated(n) == IF n < FailureThreshold THEN n + 1 ELSE FailureThreshold

\* circuitBreaker.execute(operation) up to the call of the operation
Execute ==
  LET r == executeEnter(breaker, now)
      trial == breaker.state = "open" /\ ~r.threw
  IN /\ IF r.threw THEN errorLog < MaxLogged ELSE running < MaxRunning
     /\ breaker' = r.breaker
     /\ running' = IF r.threw THEN running ELSE running + 1
     /\ trials' = IF trial THEN trials + 1 ELSE trials
     /\ executed' = [what |-> IF r.threw THEN "rejected" ELSE "started",
                     message |-> r.message, before |-> breaker, at |-> now,
                     trial |-> trial]
     /\ streak' = IF r.threw THEN Saturated(streak) ELSE streak
     /\ errorLog' = IF r.threw THEN logError(errorLog) ELSE errorLog
     /\ UNCHANGED beyondBreaker

\* an operation under way settles: one started on finding the breaker open
\* with the recovery timeout over (trial), or another one
Settles(trial) ==
  /\ IF trial THEN trials > 0 ELSE running > trials
  /\ running' = running - 1
  /\ trials' = IF trial THEN trials - 1 ELSE trials

\* the operation of an execute call resolves
OperationResolves(trial) ==
  /\ Settles(trial)
  /\ breaker' = onSuccess(breaker)
  /\ executed' = [what |-> "succeeded", message |-> NoReason, before |-> breaker, at |-> now,
                  trial |-> trial]
  /\ streak' = 0
  /\ UNCHANGED <<errorLog, beyondBreaker>>

\* the operation of an execute call rejects or throws
OperationFails(trial) ==
  /\ Settles(trial)
  /\ breaker.failures < MaxFailures
  /\ breaker' = onFailure(breaker, now)
  /\ executed' = [what |-> "failed", message |-> NoReason, before |-> breaker, at |-> now,
                  trial |-> trial]
  /\ streak' = Saturated(streak)
  /\ UNCHANGED <<errorLog, beyondBreaker>>

NextBreaker ==
  \/ Tick
  \/ Execute
  \/ \E trial \in BOOLEAN : OperationResolves(trial)
  \/ \E trial \in BOOLEAN : OperationFails(trial)

SpecBreaker == Init /\ [][NextBreaker]_vars

----------------------------------------------------------------------------
(* An AnonymousVotingContract and its callers: proposals are created, and    *)
(* voters cast votes with the nullifier hash and the commitment that the     *)
(* ZKProofGenerator computes, and either a proof naming them as its public   *)
(* inputs or an empty proof.                                                 *)

\* what the callers of the contract leave alone
beyondContract ==
  <<now, earlierVars, serviceVars, proofVars, breakerVars, cacheVars, batchVars, lastVars>>

\* '0' and '1'
ContractProposalIds == {IntToString(i) : i \in 0..(MaxProposals - 1)}

\* the proposal that voters make their nullifier hash and commitment for: '0'
ProofProposalIds == {IntToString(0)}

\* 'a' and 'b'
ContractVoters == {Chars(<<97>>), Chars(<<98>>)}

\* contract.createProposal('t', 'd', deadline)
CreateProposal ==
  /\ contract.proposalCount < MaxProposals
  /\ contract' = createProposal(contract, Chars(<<116>>), Chars(<<100>>), now + MaxSkew)
  /\ UNCHANGED <<cast, beyondContract>>

\* contract.castVote(proposalId, nullifierHash, voteCommitment, zkProof) by a
\* voter whose nullifier hash and commitment are made for the proposal madeFor
CastVote(proposalId, voterSecret, madeFor, genuine) ==
  LET nullifierHash == computeNullifier(voterSecret, Chars(<<110>>), madeFor)
      voteCommitment == computeVoteCommitment(madeFor, 1, Chars(<<110>>))
      zkProof == IF genuine
                 THEN [proof |-> Literal(17, 5),
                       publicInputs |-> <<madeFor, nullifierHash, voteCommitment>>]
                 ELSE NoZKProof
      r == castVote(contract, proposalId, nullifierHash, voteCommitment, zkProof)
  IN /\ r.threw \/ Len(contract.usedNullifiers) < MaxCast
     /\ contract' = r.contract
     /\ cast' = [made |-> TRUE, proposalId |-> proposalId, nullifierHash |-> nullifierHash,
                 voteCommitment |-> voteCommitment, zkProof |-> zkProof,
                 threw |-> r.threw, before |-> contract]
     /\ UNCHANGED beyondContract

NextContract ==
  \/ CreateProposal
  \/ \E p \in ContractProposalIds, s \in ContractVoters, f \in ProofProposalIds,
        genuine \in BOOLEAN : CastVote(p, s, f, genuine)

SpecContract == Init /\ [][NextContract]_vars

\* contract.revealResults(proposalId, 1, 0, 1, aggregationProof), called for a
\* proposal whose results are not out yet
RevealResults(proposalId) ==
  LET r == revealResults(contract, proposalId, 1, 0, 1, NoZKProof)
  IN /\ \A i \in DOMAIN contract.emitted :
          contract.emitted[i] # [event |-> "VotingCompleted", proposalId |-> proposalId]
     /\ contract' = r.contract
     /\ UNCHANGED <<cast, beyondContract>>

\* proposals are created, voted on with genuine proofs, and closed
NextReveal ==
  \/ CreateProposal
  \/ \E p \in ContractProposalIds, s \in ContractVoters, f \in ProofProposalIds :
       CastVote(p, s, f, TRUE)
  \/ \E p \in ContractProposalIds : RevealResults(p)

SpecReveal == Init /\ [][NextReveal]_vars

----------------------------------------------------------------------------
(* CryptoPerformanceCache and its callers *)

\* what the callers of the cache leave alone
beyondCache ==
  <<now, earlierVars, serviceVars, proofVars, breakerVars, contractVars, batchVars,
    lastVars>>

\* the record of a call on a cache, and the order of last use after it
Looked(name, cache, key, r) ==
  [made |-> TRUE, cache |-> name, key |-> key, hit |-> r.hit, value |-> r.value,
   evicted |-> IF Len(cache) > 0 /\ cache[1].key \notin MapKeySet(r.cache)
               THEN SomeKey(cache[1].key) ELSE NoKey,
   stalest |-> IF Len(recency[name]) > 0 THEN SomeKey(recency[name][1]) ELSE NoKey]

Used(name, key, r) ==
  [recency EXCEPT
     ![name] = Append(SelectSeq(recency[name],
                                LAMBDA k : k # key /\ k \in MapKeySet(r.cache)), key)]

\* CryptoPerformanceCache.getHashCached(input)
GetHashCached(input) ==
  LET r == getHashCached(hashCache, input)
  IN /\ hashCache' = r.cache
     /\ lookup' = Looked("hash", hashCache, input, r)
     /\ recency' = Used("hash", input, r)
     /\ UNCHANGED <<proofCache, beyondCache>>

\* CryptoPerformanceCache.getProofCached(key, () => generated)
GetProofCached(key, generated) ==
  LET r == getProofCached(proofCache, key, generated)
  IN /\ proofCache' = r.cache
     /\ lookup' = Looked("proof", proofCache, key, r)
     /\ recency' = Used("proof", key, r)
     /\ UNCHANGED <<hashCache, beyondCache>>

\* CryptoPerformanceCache.clearCache()
ClearCache ==
  /\ hashCache' = <<>>
  /\ proofCache' = <<>>
  /\ recency' = [cache \in {"hash", "proof"} |-> <<>>]
  /\ lookup' = NoLookup
  /\ UNCHANGED beyondCache

\* callers of getHashCached
NextCache ==
  \/ \E input \in CacheKeys : GetHashCached(input)
  \/ ClearCache

SpecCache == Init /\ [][NextCache]_vars

\* callers of getProofCached
NextProofCache ==
  \/ \E key \in CacheKeys, generated \in Generated : GetProofCached(key, generated)
  \/ ClearCache

SpecProofCache == Init /\ [][NextProofCache]_vars

----------------------------------------------------------------------------
(* The BatchProcessor, its callers, the operations it has called and the     *)
(* timer of its loop.                                                        *)

\* what the BatchProcessor leaves alone
beyondBatch ==
  <<now, earlierVars, serviceVars, proofVars, breakerVars, contractVars, cacheVars,
    lastVars>>

\* the state after processBatch has run from the test of its loop to an await
Processed(r) ==
  /\ batchQueue' = r.batchQueue
  /\ processingBatch' = r.processingBatch
  /\ batch' = r.batch
  /\ loop' = r.loop
  /\ operations' = r.operations

\* BatchProcessor.addToBatch(operation), operation of the kind given
AddToBatch(kind) ==
  LET added == Append(operations, [kind |-> kind, started |-> 0, ran |-> "uncalled",
                                   promise |-> "pending", from |-> 0])
      queued == Append(batchQueue, Len(added))
  IN /\ Len(operations) < MaxOperations
     /\ IF ~processingBatch
        THEN Processed(processBatch(queued, added))
        ELSE /\ batchQueue' = queued
             /\ operations' = added
             /\ UNCHANGED <<processingBatch, batch, loop>>
     /\ UNCHANGED beyondBatch

\* the promise that a called operation returned settles
OperationSettles(op) ==
  /\ op \in DOMAIN operations
  /\ operations[op].ran = "pending"
  /\ operations' = [operations EXCEPT
                      ![op].ran = IF operations[op].kind = "resolves" THEN "fulfilled"
                                  ELSE "rejected"]
  /\ UNCHANGED <<batchQueue, processingBatch, batch, loop, beyondBatch>>

\* Promise.allSettled of the batch has settled: processBatch goes on to the
\* await of its delay
BatchSettled ==
  /\ loop = "settling"
  /\ \A i \in DOMAIN batch : operations[batch[i]].ran \in {"fulfilled", "rejected"}
  /\ operations' = SettleEach(operations, batch)
  /\ loop' = "delay"
  /\ UNCHANGED <<batchQueue, processingBatch, batch, beyondBatch>>

\* the delay between batches is over: processBatch tests its loop again
DelayOver ==
  /\ loop = "delay"
  /\ Processed(processBatch(batchQueue, operations))
  /\ UNCHANGED beyondBatch

NextBatch ==
  \/ \E kind \in {"resolves", "rejects", "throws"} : AddToBatch(kind)
  \/ \E op \in 1..MaxOperations : OperationSettles(op)
  \/ BatchSettled
  \/ DelayOver

\* promises settle and timers fire
FairBatch ==
  /\ \A op \in 1..MaxOperations : WF_vars(OperationSettles(op))
  /\ WF_vars(BatchSettled)
  /\ WF_vars(DelayOver)

SpecBatch == Init /\ [][NextBatch]_vars /\ FairBatch

----------------------------------------------------------------------------
(* Properties *)

Returned(op) == pc = "returned" /\ call.op = op

Untampered == held.tamper = NoTamper

\* the submitted bundle's timestamp is within one hour of the time of the call
WithinWindow == Abs(call.at - held.bundle.timestamp) <= 3600000

\* the nullifier a bundle of voter v for proposal p carries
NullifierOf(v, p, n, t) ==
  generateSecureNullifier(Credential(v), Chars(p), Num(0), n, 0, t).nullifier

\* the registry stores a nullifier generated by voter v for proposal p
StoredFrom(v, p) ==
  \E i \in DOMAIN nullifiers, n \in Draws, t \in Clock :
    nullifiers[i].key = NullifierOf(v, p, n, t)

\* C1: a bundle whose nullifier the registry already stores is refused by
\* addNullifier, and no nullifier is stored twice.
C1_AtMostOnce ==
  /\ Returned("addNullifier") /\ call.seen => ~call.result
  /\ \A i, j \in DOMAIN nullifiers : nullifiers[i].key = nullifiers[j].key => i = j

\* the case of C1: a bundle is submitted whose nullifier is already stored
C1_Replayed == Returned("addNullifier") /\ call.seen

\* some addNullifier call has returned true
SomeAccepted == Len(nullifiers) > 0 \/ (Returned("addNullifier") /\ call.result)

\* C2: once the registry stores a nullifier of voter v for proposal p, a
\* further generated bundle of v for p is refused by addNullifier.
C2_OneVotePerVoter ==
  Returned("addNullifier") /\ Untampered /\ call.proposalId = held.proposalId
    /\ StoredFrom(held.voter, held.proposalId)
  => ~call.result

\* the case of C2: a second, different bundle of a voter who is already stored
C2_SecondBundle ==
  Returned("addNullifier") /\ Untampered /\ call.proposalId = held.proposalId
    /\ StoredFrom(held.voter, held.proposalId) /\ ~call.seen

\* C3: addNullifier returns true for every generated bundle (here: of a
\* well-formed proposal id, submitted under that id) that is submitted unaltered,
\* within the freshness window, while its nullifier is not stored.
C3_ValidBundleAccepted ==
  Returned("addNullifier") /\ Untampered /\ WithinWindow /\ ~call.seen
    /\ validateProposalId(held.proposalId) /\ call.proposalId = held.proposalId
  => call.result

\* C4: a generated bundle of a voter for one of the proposals "A", "B" is
\* accepted when the registry stores no nullifier of that voter for that proposal
\* (it may store the voter's nullifier for the other proposal).
C4_CrossProposalAccepted ==
  Returned("addNullifier") /\ Untampered /\ WithinWindow
    /\ held.proposalId \in {<<65>>, <<66>>} /\ call.proposalId = held.proposalId
    /\ ~StoredFrom(held.voter, held.proposalId)
  => call.result

\* C5: verifyNullifierProof returns false when the proposal id it is given is
\* not the one the bundle was generated for.
C5_BoundToProposal ==
  Returned("verifyNullifierProof") /\ validateProposalId(held.proposalId)
    /\ call.proposalId # held.proposalId
  => ~call.result

\* the bundle as generated passes verifyNullifierProof with the arguments of the call
OriginalVerifies ==
  verifyNullifierProof(held.original, Chars(call.proposalId), call.root, call.at)

\* C6: a bundle that differs in one byte of one field from a bundle that
\* verifies is refused by verifyNullifierProof, and addNullifier does not store it.
C6_TamperRejected ==
  /\ Returned("verifyNullifierProof") /\ held.tamper.kind = "byte" /\ OriginalVerifies
       /\ call.proposalId = held.proposalId /\ validateProposalId(held.proposalId)
       => ~call.result
  /\ Returned("addNullifier") /\ held.tamper.kind = "byte"
       => ~call.result /\ (call.seen \/ held.bundle.nullifier \notin MapKeySet(nullifiers))

\* every check of verifyNullifierProof other than the timestamp test passes
OtherChecksPass ==
  /\ held.bundle.rangeProof.len = 64 /\ held.bundle.voteCommitment.len = 64
  /\ held.bundle.membershipProof.len = 64 /\ call.root.len > 0
  /\ held.bundle.nullifier.len = 64 /\ held.bundle.nullifierProof.len = 64
  /\ held.bundle.nonce.len = 64 /\ held.bundle.timestamp > 0

\* C7: with every other check passing, verifyNullifierProof at time now accepts
\* exactly the bundles with |now - timestamp| <= 3600000: it refuses
\* timestamp = now - 3600000 - 1 and accepts timestamp = now - 3600000 + 1.
C7_FreshnessWindow ==
  Returned("verifyNullifierProof") /\ OtherChecksPass =>
    /\ call.result <=> (call.at - held.bundle.timestamp <= 3600000
                        /\ held.bundle.timestamp - call.at <= 3600000)
    /\ held.bundle.timestamp = call.at - 3600000 - 1 => ~call.result
    /\ held.bundle.timestamp = call.at - 3600000 + 1 => call.result

\* a bundle one millisecond inside the window has been accepted
C7_AcceptedInsideWindow ==
  /\ Returned("verifyNullifierProof") /\ OtherChecksPass
  /\ held.bundle.timestamp = call.at - 3600000 + 1
  /\ call.result

\* a bundle one millisecond outside the window has been refused
C7_RefusedOutsideWindow ==
  /\ Returned("verifyNullifierProof") /\ OtherChecksPass
  /\ held.bundle.timestamp = call.at - 3600000 - 1
  /\ ~call.result

\* C8: a bundle whose timestamp was moved to one hour after its generation is
\* refused by addNullifier whenever it is submitted from its generation on.
C8_HourAheadRefused ==
  Returned("addNullifier") /\ held.tamper = [field |-> "timestamp", kind |-> "hourAhead"]
    /\ call.at >= held.genTime
  => ~call.result

\* such a bundle has been submitted in the millisecond of its generation
C8_SubmittedAtOnce ==
  /\ Returned("addNullifier")
  /\ held.tamper = [field |-> "timestamp", kind |-> "hourAhead"]
  /\ held.bundle.timestamp = held.genTime + 3600000
  /\ call.at = held.genTime
  /\ ~call.result

\* C9: generateSecureNullifier throws, and returns no bundle, for every vote
\* choice other than 0 and 1.
C9_InvalidChoiceThrows ==
  pc # "idle" /\ held.voteChoice \notin {Num(0), Num(1)}
  => pc = "threw" /\ held.bundle = NoBundle /\ held.original = NoBundle

\* generateSecureNullifier has thrown for 0.5, or for NaN
C9_ThrewForFraction == pc = "threw" /\ held.voteChoice \in {Half, NaN}

\* C10: generateSecureNullifier fails, and returns no bundle, for a proposal id
\* that is empty or longer than 64 characters.
C10_MalformedIdRejected ==
  pc # "idle" /\ (Len(held.proposalId) = 0 \/ Len(held.proposalId) > 64)
  => pc = "threw" /\ held.bundle = NoBundle

\* C11: a refused addNullifier call tells its caller the cause, "InvalidProof"
\* when the bundle fails verification and "DoubleVote" when its nullifier is
\* stored (here: for bundles with one field replaced by a 'tampered_...' text).
C11_RejectionTold ==
  Returned("addNullifier") /\ ~call.result /\ held.tamper.kind = "text"
  => call.reason =
       IF ~verifyNullifierProof(held.bundle, Chars(call.proposalId), call.root, call.at)
       THEN "InvalidProof" ELSE "DoubleVote"

\* C12: verifyRegistryIntegrity returns true whenever it is called.
C12_IntegrityHolds == Returned("verifyRegistryIntegrity") => call.result

\* verifyRegistryIntegrity has returned true right after an addNullifier call
C12_CheckedAfterSubmission ==
  /\ Returned("verifyRegistryIntegrity")
  /\ call.after = "addNullifier"
  /\ held # NoHeld
  /\ call.result

\* C15: a stored nullifier stays stored: no step removes a key from the
\* registry's map.
C15_StoredStays ==
  [][\A i \in DOMAIN nullifiers : nullifiers[i].key \in MapKeySet(nullifiers')]_vars

\* the case of C15: some nullifier is stored
C15_SomeStored == Len(nullifiers) > 0

\* a step that repeats a verifyNullifierProof call on the same bundle, proposal
\* id and root
RepeatedVerification ==
  /\ Returned("verifyNullifierProof")
  /\ pc' = "returned" /\ call'.op = "verifyNullifierProof"
  /\ held' = held /\ call'.proposalId = call.proposalId /\ call'.root = call.root
  /\ call'.at # call.at

\* the time t is within one hour of the timestamp of the bundle held
Fresh(t) == Abs(t - held.bundle.timestamp) <= 3600000

\* C16 as stated: a repeated verifyNullifierProof call returns what the earlier
\* call returned, whenever it is made, and leaves the registry as it was.
C16_Pure ==
  [][RepeatedVerification => call'.result = call.result /\ registry' = registry]_vars

\* C16, amended: a repeated verifyNullifierProof call made on the same side of
\* the freshness window as the earlier call returns what that call returned;
\* every repeated call leaves the registry as it was.
C16_PureWithinWindow ==
  [][RepeatedVerification =>
       /\ (Fresh(call.at) <=> Fresh(call'.at)) => call'.result = call.result
       /\ registry' = registry]_vars

\* a verification has been repeated later, inside the window, and has returned
\* true again
C16_RepeatedInsideWindow ==
  /\ Returned("verifyNullifierProof") /\ call.after = "verifyNullifierProof"
  /\ call.at > held.genTime /\ Fresh(call.at) /\ call.result

\* C13: verifyRegistryIntegrity returns true exactly when the digest recomputed
\* from the stored keys equals registryRoot, so it returns false once the map
\* was changed behind the registry's back.
C13_MutationDetected ==
  Returned("verifyRegistryIntegrity")
  => (call.result <=> computeMerkleRoot(MapKeys(nullifiers)) = registryRoot)

\* C14: of the addNullifier calls in flight for one bundle at most one returns
\* true, in whichever order they run.
C14_AtMostOneAccepted ==
  Cardinality({i \in DOMAIN racers : racers[i].done /\ racers[i].result}) <= 1

\* all the calls in flight for an unaltered bundle of a well-formed proposal id
\* have returned
C14_RaceOver ==
  /\ pc = "racing" /\ Len(racers) = MaxRacers
  /\ \A i \in DOMAIN racers : racers[i].done
  /\ validateProposalId(held.proposalId) /\ call.proposalId = held.proposalId

\* C17: verifyVoterEligibility returns true for the credentials of a
\* registration when it is called before any further registration.
C17_FreshProofVerifies ==
  eligibility.made /\ eligibility.size = issued.voterIndex + 1 => eligibility.result

\* C18: a step changes merkleRoot exactly when it appends a leaf.
C18_RootTracksLeaves ==
  [][(Len(voterTree') = Len(voterTree) + 1) <=> (merkleRoot' # merkleRoot)]_vars

\* C19: verifying the same credentials again returns what it returned before,
\* however many voters were registered in between.
C19_ProofStaysValid ==
  [][eligibility.made /\ eligibility'.made /\ issued' = issued
       => eligibility'.result = eligibility.result]_vars

\* C20: an attempt of a voter and proposal with an accepted attempt since the
\* last reset is refused with the reason 'Double voting detected' and the record
\* of the first accepted attempt, and it leaves usedNullifiers and
\* nullifierHistory as they were.
C20_RepeatRefused ==
  /\ [](attempt.made /\ attempt.first > 0 =>
          /\ ~attempt.result.success
          /\ attempt.result.reason = "Double voting detected"
          /\ attempt.result.previousVote =
               [nullifier |-> generateNullifier(attempt.voterSecret, attempt.proposalId),
                proposalId |-> attempt.proposalId,
                timestamp |-> ballots[attempt.first].timestamp,
                blockNumber |-> 1000 + attempt.first - 1])
  /\ [][attempt'.made /\ attempt'.first > 0 =>
          usedNullifiers' = usedNullifiers /\ nullifierHistory' = nullifierHistory]_vars

\* a second attempt of the same voter and proposal, with another choice and
\* another timestamp, has been refused
C20_SecondAttemptRefused ==
  /\ attempt.made /\ attempt.first > 0
  /\ attempt.voteChoice # ballots[attempt.first].voteChoice
  /\ attempt.timestamp # ballots[attempt.first].timestamp
  /\ ~attempt.result.success

\* C21: an attempt of a voter and proposal with no accepted attempt since the
\* last reset succeeds, whatever other voters and proposals have voted.
C21_OthersNeverBlock ==
  attempt.made /\ attempt.first = 0 => attempt.result.success


\* the last call was a query of the status of a voter and proposal
Queried == answer.made /\ answer.op \in {"checkVoteEligibility", "getVoteStatus"}

\* what the last query said
SaidCanVote ==
  IF answer.op = "getVoteStatus" THEN answer.status.status = "can-vote"
  ELSE answer.eligibility.canVote

SaidAlreadyVoted ==
  IF answer.op = "getVoteStatus" THEN answer.status.status = "already-voted"
  ELSE ~answer.eligibility.canVote

\* C22: a query of the status of a voter and proposal says 'already-voted'
\* (canVote false) when a vote of that voter on that proposal has been recorded
\* since the last reset and 'can-vote' (canVote true) when none is recorded, and
\* no query changes the recorded votes.
C22_StatusReflectsWrites ==
  /\ [](Queried => IF answer.voted THEN SaidAlreadyVoted ELSE SaidCanVote)
  /\ [][Queried' /\ answer' # answer => serviceNullifiers' = serviceNullifiers]_vars


\* the voter whose vote a published record holds
VoterOf(record) == (CHOOSE r \in recorded : r.nullifier = record.nullifier).voterSecret

\* the pairs of records an observer holds of two different proposals
AcrossProposals ==
  {<<listings[p][i], listings[q][j]>> :
     <<p, i, q, j>> \in {x \in ServiceProposals \X (1..(3 + MaxRecords)) \X ServiceProposals
                                \X (1..(3 + MaxRecords)) :
                           /\ x[1] # x[3]
                           /\ x[2] <= Len(listings[x[1]])
                           /\ x[4] <= Len(listings[x[3]])}}

\* some voter has a record in both lists, and the field is equal in two records
\* of different proposals exactly when they are of the same voter
LinkedBy(field) ==
  /\ \E pair \in AcrossProposals : VoterOf(pair[1]) = VoterOf(pair[2])
  /\ \A pair \in AcrossProposals :
       pair[1][field] = pair[2][field] <=> VoterOf(pair[1]) = VoterOf(pair[2])

\* C23: the lists getProposalNullifiers publishes for two different proposals
\* hold no field computed from the voter's secret that is equal in two records
\* exactly when the two records are of the same voter.
C23_Unlinkable == \A field \in {"nullifier", "voterIdentifier"} : ~LinkedBy(field)


\* the value of a base64 character
Base64Value(ch) ==
  IF ch \in 65..90 THEN ch - 65
  ELSE IF ch \in 97..122 THEN ch - 71
  ELSE IF ch \in 48..57 THEN ch + 4
  ELSE IF ch = 43 THEN 62
  ELSE IF ch = 47 THEN 63
  ELSE 0

RECURSIVE FromBase64(_, _)
\* the bytes that the base64 characters from character i (1-based) on stand for
FromBase64(text, i) ==
  IF i + 3 > Len(text) THEN <<>>
  ELSE LET v1 == Base64Value(text[i])
           v2 == Base64Value(text[i + 1])
           v3 == Base64Value(text[i + 2])
           v4 == Base64Value(text[i + 3])
       IN <<v1 * 4 + v2 \div 16>>
            \o (IF text[i + 2] = 61 THEN <<>> ELSE <<(v2 % 16) * 16 + v3 \div 4>>)
            \o (IF text[i + 3] = 61 THEN <<>> ELSE <<(v3 % 4) * 64 + v4>>)
            \o FromBase64(text, i + 4)

\* what follows the first occurrence of key in text, nothing if there is none
AfterKey(text, key) ==
  LET starts == {i \in 1..(Len(text) - Len(key) + 1) :
                   SubSeq(text, i, i + Len(key) - 1) = key}
  IN IF starts = {} THEN <<>>
     ELSE SubSeq(text, Len(key) + CHOOSE i \in starts : \A j \in starts : i <= j, Len(text))

\* text up to the first of its characters that is in stops
UpTo(text, stops) ==
  LET at == {i \in 1..Len(text) : text[i] \in stops}
  IN IF at = {} THEN text
     ELSE SubSeq(text, 1, (CHOOSE i \in at : \A j \in at : i <= j) - 1)

RECURSIVE ParseDigits(_)
ParseDigits(text) ==
  IF Len(text) = 0 THEN 0
  ELSE 10 * ParseDigits(SubSeq(text, 1, Len(text) - 1)) + (text[Len(text)] - 48)

\* the number text is the decimal digits of, -1 if it is not digits
ParseInt(text) ==
  IF Len(text) > 0 /\ \A i \in 1..Len(text) : text[i] \in 48..57 THEN ParseDigits(text)
  ELSE 0 - 1

\* JSON.parse(proof).choice
ReadProofChoice(g) ==
  ParseInt(UpTo(AfterKey(g.proof.txt, <<44, 34, 99, 104, 111, 105, 99, 101, 34, 58>>),
                {44, 125}))

\* parseInt(publicInputs[1].toString())
ReadPublicInput(g) ==
  IF Len(g.publicInputs) < 2 THEN 0 - 1 ELSE ParseInt(g.publicInputs[2].txt)

\* atob(JSON.parse(proof).mockProof).split('|')[1]
ReadMockProof(g) ==
  LET mockProof == UpTo(AfterKey(g.proof.txt, <<44, 34, 109, 111, 99, 107, 80, 114, 111, 111, 102, 34, 58, 34>>),
                        {34})
      proofElements == FromBase64(mockProof, 1)
  IN ParseInt(UpTo(AfterKey(proofElements, <<124>>), {124}))

\* what an observer can compute from the published outputs of a generation
Readings(g) == <<ReadProofChoice(g), ReadPublicInput(g), ReadMockProof(g)>>

\* two voters have proofs of the same generator on inputs that differ in the
\* vote choice only
DifferInChoiceOnly ==
  /\ generations["left"].made /\ generations["right"].made
  /\ ~generations["left"].threw /\ ~generations["right"].threw
  /\ generations["left"].by = generations["right"].by
  /\ generations["left"].voteData.choice # generations["right"].voteData.choice
  /\ [generations["left"].voteData EXCEPT !.choice = 0]
       = [generations["right"].voteData EXCEPT !.choice = 0]

\* C24: of two proof generations that differ in the vote choice only, nothing
\* an observer reads from the published proof and public inputs gives back the
\* choice of each.
C24_ChoiceHidden ==
  DifferInChoiceOnly =>
    \A k \in 1..3 :
      ~ /\ Readings(generations["left"])[k] = generations["left"].voteData.choice
        /\ Readings(generations["right"])[k] = generations["right"].voteData.choice


\* an execute call fails: it is rejected, or its operation fails
CallFails == executed' # executed /\ executed'.what \in {"rejected", "failed"}

\* an execute call is entered while the breaker is open and the recovery
\* timeout has not elapsed since the last failure
EnteredWhileOpen ==
  /\ executed' # executed
  /\ executed'.what \in {"rejected", "started"}
  /\ breaker.state = "open"
  /\ now - breaker.lastFailureTime <= RecoveryTimeout

\* C25: after FailureThreshold execute calls in a row have failed the breaker is
\* open, and an execute call entered while it is open and the recovery timeout
\* has not elapsed is rejected with the 'Circuit breaker is open' error and
\* does not start its operation.
C25_OpensAndRejects ==
  /\ [][CallFails /\ streak' >= FailureThreshold => breaker'.state = "open"]_vars
  /\ [][EnteredWhileOpen =>
          /\ executed'.what = "rejected"
          /\ executed'.message = "Circuit breaker is open - operation temporarily unavailable"
          /\ running' = running]_vars

\* the breaker has opened at the threshold and has then rejected a call
C25_RejectedWhileOpen ==
  /\ executed.what = "rejected"
  /\ executed.before.state = "open"
  /\ executed.before.failures = FailureThreshold
  /\ streak >= FailureThreshold


\* C26: a castVote with a nullifier hash that an earlier castVote has marked
\* used aborts, and a castVote that aborts leaves the used nullifiers, the
\* proposals and the emitted events as they were.
C26_UsedNullifierRefused ==
  [][cast' # cast =>
       /\ cast'.nullifierHash \in MapKeySet(contract.usedNullifiers) => cast'.threw
       /\ cast'.threw => contract' = contract]_vars

\* a castVote on an active proposal was refused for its used nullifier hash
C26_RepeatRefused ==
  /\ cast.made /\ cast.threw
  /\ cast.nullifierHash \in MapKeySet(cast.before.usedNullifiers)
  /\ cast.proposalId \in MapKeySet(cast.before.proposals)
  /\ Len(contract.emitted) > 1

\* the proof of a castVote is one for the call: not empty, its public inputs
\* the proposal, the nullifier hash and the commitment of the call
ProofOfCall ==
  /\ cast.zkProof.proof.len > 0
  /\ cast.zkProof.publicInputs = <<cast.proposalId, cast.nullifierHash, cast.voteCommitment>>

\* C27: castVote records a vote only if its proof verifies; a castVote whose
\* proof does not verify (an empty proof, a proof for other public inputs) is
\* rejected.
C27_RecordedOnlyIfVerified == cast.made /\ ~cast.threw => ProofOfCall


\* C28: a call that evicts an entry evicts the one that had gone unused the
\* longest, a hit counting as a use, and neither cache ever holds more than
\* maxCacheSize entries.
C28_EvictsLeastRecentlyUsed ==
  /\ lookup.made /\ lookup.evicted.some => lookup.evicted = lookup.stalest
  /\ Len(hashCache) <= MaxCacheSize
  /\ Len(proofCache) <= MaxCacheSize


\* the promise returned for an operation has settled as the operation did
SettledWithOwn(op) ==
  /\ op \in DOMAIN operations
  /\ operations[op].promise # "pending"
  /\ operations[op].started = 1
  /\ operations[op].from = op
  /\ operations[op].promise = "fulfilled" <=> operations[op].ran = "fulfilled"

\* C29: no operation handed to addToBatch is started twice, and a promise
\* that addToBatch returned settles only once its operation has been started,
\* and then with the value or the error of that operation alone: the failure
\* of one operation of a batch rejects no other.
C29_EachOperationSettlesAlone ==
  \A op \in DOMAIN operations :
    /\ operations[op].started <= 1
    /\ operations[op].promise # "pending" => SettledWithOwn(op)



\* registryRoot is the Merkle root of the keys of the map, in insertion order
RootOfStored == registryRoot = computeMerkleRoot(MapKeys(nullifiers))

\* a step in which addNullifier returns false
AddNullifierRefuses ==
  pc = "holding" /\ pc' = "returned" /\ call'.op = "addNullifier" /\ ~call'.result

\* C30: in every reachable state of the registry registryRoot is
\* computeMerkleRoot of the stored nullifiers in insertion order, and an
\* addNullifier call that returns false leaves the map, merkleTree and
\* registryRoot as they were.
C30_RootTracksStored ==
  /\ []RootOfStored
  /\ [][AddNullifierRefuses => UNCHANGED <<nullifiers, merkleTree, registryRoot>>]_vars

\* addNullifier has returned false for a bundle, and the digest is still that
\* of what is stored
C30_RefusedAndUntouched ==
  /\ Returned("addNullifier")
  /\ ~call.result
  /\ call.root = registryRoot
  /\ merkleTree = MapKeys(nullifiers)
  /\ RootOfStored



\* revealResults has completed for the proposal on the contract c
ResultsRevealed(c, proposalId) ==
  \E i \in DOMAIN c.emitted :
    c.emitted[i] = [event |-> "VotingCompleted", proposalId |-> proposalId]

\* a step in which castVote is called
CastVoteCalled == cast'.made /\ (cast' # cast \/ contract' # contract) /\ cast'.before = contract

\* C31: a castVote call completes only for a proposal that has been created
\* and is active, and a castVote call for a proposal whose results have been
\* revealed aborts and leaves the used nullifiers as they were.
C31_OnlyWhileActive ==
  [][CastVoteCalled =>
       /\ ~cast'.threw =>
             /\ cast'.proposalId \in MapKeySet(contract.proposals)
             /\ MapGet(contract.proposals, cast'.proposalId).active
             /\ ~ResultsRevealed(contract, cast'.proposalId)
       /\ ResultsRevealed(contract, cast'.proposalId) =>
             cast'.threw /\ contract'.usedNullifiers = contract.usedNullifiers]_vars

\* a vote with an unused nullifier has been refused for a proposal whose
\* results had been revealed
C31_RefusedAfterReveal ==
  /\ cast.made
  /\ cast.threw
  /\ ResultsRevealed(cast.before, cast.proposalId)
  /\ cast.nullifierHash \notin MapKeySet(cast.before.usedNullifiers)
  /\ contract.usedNullifiers = cast.before.usedNullifiers



\* C32: verifyVoteProof accepts a proof that generateVoteProof produced less
\* than five minutes before the call, and refuses every proof whose timestamp
\* is five minutes or more behind the time of the call, or ahead of it.
C32_FiveMinuteWindow ==
  checked.made =>
    /\ checked.produced /\ checked.at - checked.dated < ProofWindow => checked.result
    /\ checked.at - checked.dated >= ProofWindow \/ checked.dated > checked.at
         => ~checked.result



\* the handleVote calls made for the voter and the proposal
FlowsOf(voterSecret, proposalId) ==
  {f \in 1..MaxFlows : /\ flows[f].stage # "idle"
                       /\ flows[f].voterSecret = voterSecret
                       /\ flows[f].proposalId = proposalId}

\* C33: of the handleVote calls made for one voter and one proposal, however
\* they overlap, never more than one adds a record, and once all of them have
\* returned exactly one has added a record and every other one has ended with
\* an alert of failure.
C33_ExactlyOneFlowRecords ==
  \A voterSecret \in FlowVoters, proposalId \in FlowProposals :
    LET calls == FlowsOf(voterSecret, proposalId)
        adding == {f \in calls : flows[f].added}
    IN /\ Cardinality(adding) <= 1
       /\ calls # {} /\ (\A f \in calls : flows[f].stage = "done")
            => /\ Cardinality(adding) = 1
               /\ \A f \in calls \ adding : flows[f].outcome \in {"refused", "failed"}



\* an execute call is entered while the breaker is open and the recovery
\* timeout has elapsed since the last failure
EnteredAfterTimeout ==
  /\ running' >= running
  /\ executed' # executed
  /\ breaker.state = "open"
  /\ now - breaker.lastFailureTime > RecoveryTimeout

\* the operation of such a call settles
TrialSettles(what) == trials' = trials - 1 /\ executed'.what = what

\* C34: an execute call that finds the breaker open with more than
\* recoveryTimeout gone since the last failure calls its operation with the
\* breaker half-open; when that operation succeeds the breaker is closed with
\* no failures counted, and when it fails the breaker is open with the time
\* of this failure as lastFailureTime.
C34_HalfOpenTrial ==
  /\ [][EnteredAfterTimeout =>
          /\ executed'.what = "started"
          /\ breaker'.state = "half-open"
          /\ running' = running + 1]_vars
  /\ [][TrialSettles("succeeded") => breaker'.state = "closed" /\ breaker'.failures = 0]_vars
  /\ [][TrialSettles("failed") =>
          breaker'.state = "open" /\ breaker'.lastFailureTime = now]_vars



\* C35: a breaker that has opened becomes closed only when more than
\* recoveryTimeout has gone since its last failure, whichever of the
\* operations under way settles, those started before it opened included.
C35_ClosedOnlyAfterTimeout ==
  [][breaker.state \in {"open", "half-open"} /\ breaker'.state = "closed"
       => now - breaker.lastFailureTime > RecoveryTimeout]_vars



\* something can still settle the promise of the task: it waits in the queue,
\* or a worker that has not answered holds it
CanSettle(task) ==
  \/ \E i \in DOMAIN workerQueue : workerQueue[i] = task
  \/ \E w \in DOMAIN made : made[w].posted /\ made[w].item = task

\* C36: no task handed to processInWorker is left with a promise that nothing
\* can settle any more, whether more tasks than maxWorkers are pending or
\* terminateWorkers is called with tasks queued or running; the pool never has
\* more than maxWorkers workers, and no worker holds two tasks.
C36_NoTaskLost ==
  /\ \A task \in DOMAIN tasks : tasks[task] = "pending" => CanSettle(task)
  /\ Len(workers) <= MaxWorkers
  /\ \A w, v \in DOMAIN made :
       made[w].posted /\ made[v].posted /\ made[w].item = made[v].item => w = v



\* the operations that were called and whose promise has not settled
InFlight == {op \in DOMAIN operations : operations[op].ran = "pending"}

\* the operation was called in the step
StartedNow(op) ==
  /\ op \in DOMAIN operations'
  /\ operations'[op].started > 0
  /\ op \in DOMAIN operations => operations[op].started = 0

\* C37: a processBatch loop runs exactly while processingBatch is set, so that
\* addToBatch never starts a second one; never more than batchSize operations
\* are in flight; and no operation is called after one that was added later.
C37_OneLoopInOrder ==
  /\ [](processingBatch <=> loop # "idle")
  /\ [](Cardinality(InFlight) <= BatchSize)
  /\ [][\A op \in 1..MaxOperations :
          StartedNow(op) =>
            \A later \in DOMAIN operations : later > op => operations[later].started = 0]_vars



\* C38: when connect() has just returned success = false, getWalletInfo()
\* reports isConnected false and no accounts; and isConnected is true only
\* when a connect() has returned success = true with no disconnect() completed
\* since.
C38_FailedConnectLeavesDisconnected ==
  /\ walletCall.op = "connect" /\ ~walletCall.success =>
       /\ ~getWalletInfo(This).isConnected
       /\ getWalletInfo(This).accounts = <<>>
  /\ getWalletInfo(This).isConnected => walletCall.live

====
